---------------------------- MODULE Spec2Model ----------------------------
(***************************************************************************)
(* Chunked extraction and aggregation pipeline of langextract-AM.          *)
(*                                                                         *)
(*   main.py     process_one_pdf, _process_one_chunk  (chunk supervisor)   *)
(*   schemas.py  group_extractions_to_entities, _parse_elements_json,      *)
(*               _parse_temp_to_k, entity_to_target_json                   *)
(*   pdf_utils.py chunk_text                                               *)
(*                                                                         *)
(* Conventions.  Python str is a TLA+ string.  Python None is the reserved *)
(* string None.  A Python float is an integer number of hundredths         *)
(* (Float(30) is 30.0, Float(-1) is -1.0, 87315 is 873.15).  A dict is a   *)
(* function whose DOMAIN is its set of keys; an insertion-ordered dict     *)
(* whose order matters is a sequence of entries.  A call that may raise    *)
(* returns a record [exc |-> name of the exception or NoExc, val |-> ...]. *)
(***************************************************************************)
EXTENDS Integers, Sequences, FiniteSets, TLC

\* ------------------------------------------------------------------ bounds
MaxSpans == 3      \* longest span list handed to group_extractions_to_entities
MaxElems == 2      \* most members of an elements_json object
MaxPairs == 3      \* most (chunk_index, spans) pairs handed to the merge
MaxText == 8       \* longest text handed to chunk_text
MaxChunks == 9     \* cap on the chunks list of a chunk_text call
MaxDocs == 3       \* most documents of one run of main
MaxThreads == 2    \* threads calling save_results_to_jsonl at once

\* ------------------------------------------------------- program constants
MIN_CHUNK_RETRY == 2000
OVERLAP == 500
SAFE_NAME_LEN == 15
TEXT_PREFIX_LEN == 40

None == "<None>"
NoExc == "<no exception>"
DEFAULT_MID == "__default__"
SOURCE_PDF == "paper.pdf"

Float(n) == n * 100

Ok(v) == [exc |-> NoExc, val |-> v]
Raise(e) == [exc |-> e, val |-> None]

Min(a, b) == IF a < b THEN a ELSE b

\* ------------------------------------------------------------ str helpers
\* s[:n]
Prefix(s, n) == SubSeq(s, 1, Min(n, Len(s)))

\* s[i] (1-based) as a one-character string
Ch(s, i) == SubSeq(s, i, i)

Digits == {"0", "1", "2", "3", "4", "5", "6", "7", "8", "9"}
Lowers == {"a", "b", "c", "d", "e", "f", "g", "h", "i", "j", "k", "l", "m",
           "n", "o", "p", "q", "r", "s", "t", "u", "v", "w", "x", "y", "z"}
Uppers == {"A", "B", "C", "D", "E", "F", "G", "H", "I", "J", "K", "L", "M",
           "N", "O", "P", "Q", "R", "S", "T", "U", "V", "W", "X", "Y", "Z"}
Spaces == {" "}

\* dict.get(key, default)
Get(d, key, default) == IF key \in DOMAIN d THEN d[key] ELSE default

\* bool(x) of a str-or-None value
Truthy(s) == s # None /\ s # ""

LowerAlpha == "abcdefghijklmnopqrstuvwxyz"
UpperAlpha == "ABCDEFGHIJKLMNOPQRSTUVWXYZ"

\* one character of str.lower()
LowerCh(c) ==
    IF \E i \in 1..Len(UpperAlpha) : Ch(UpperAlpha, i) = c
    THEN Ch(LowerAlpha, CHOOSE i \in 1..Len(UpperAlpha) : Ch(UpperAlpha, i) = c)
    ELSE c

RECURSIVE Lower(_)
\* str.lower()
Lower(s) ==
    IF s = "" THEN ""
    ELSE LowerCh(Ch(s, 1)) \o Lower(SubSeq(s, 2, Len(s)))

RECURSIVE Strip(_)
\* str.strip()
Strip(s) ==
    IF s = "" THEN ""
    ELSE IF Ch(s, 1) \in Spaces THEN Strip(SubSeq(s, 2, Len(s)))
    ELSE IF Ch(s, Len(s)) \in Spaces THEN Strip(SubSeq(s, 1, Len(s) - 1))
    ELSE s

\* sub in t
Contains(t, sub) ==
    \E i \in 1..(Len(t) - Len(sub) + 1) : SubSeq(t, i, i + Len(sub) - 1) = sub

DigitVal(c) == CHOOSE n \in 0..9 : Ch("0123456789", n + 1) = c

RECURSIVE StrToNat(_)
\* the value of a string of decimal digits
StrToNat(s) ==
    IF s = "" THEN 0
    ELSE StrToNat(SubSeq(s, 1, Len(s) - 1)) * 10 + DigitVal(Ch(s, Len(s)))

\* the characters float() accepts after an optional sign, in the forms the
\* model's strings take: digits with at most one ".", at least one digit
\* (exponents, "inf", "nan" and "_" do not occur in the model's strings)
IsNumBody(b) ==
    /\ \A i \in 1..Len(b) : Ch(b, i) \in Digits \cup {"."}
    /\ \E i \in 1..Len(b) : Ch(b, i) \in Digits
    /\ Cardinality({i \in 1..Len(b) : Ch(b, i) = "."}) <= 1

\* digits with at most one "." as hundredths (two decimals kept)
NumBodyValue(b) ==
    LET dots == {i \in 1..Len(b) : Ch(b, i) = "."}
        dot  == IF dots = {} THEN Len(b) + 1 ELSE CHOOSE i \in dots : TRUE
        ip   == SubSeq(b, 1, dot - 1)
        fp   == Prefix(SubSeq(b, dot + 1, Len(b)) \o "00", 2)
    IN  StrToNat(ip) * 100 + StrToNat(fp)

\* float() of an optional sign and the characters after it
SignedValue(sgn, body) ==
    IF IsNumBody(body)
    THEN Ok(IF sgn = "-" THEN 0 - NumBodyValue(body) ELSE NumBodyValue(body))
    ELSE Raise("ValueError")

\* float() of a string without surrounding whitespace
FloatOfStripped(t) ==
    IF t # "" /\ Ch(t, 1) \in {"-", "+"}
    THEN SignedValue(Ch(t, 1), SubSeq(t, 2, Len(t)))
    ELSE SignedValue("", t)

\* float(s) of a str: the value in hundredths, or ValueError
ParseFloat(s) == FloatOfStripped(Strip(s))

\* a list of results of calls made in order: the list of their values, or
\* the exception of the first call that raised
Collect(rs) ==
    LET bad == {i \in 1..Len(rs) : rs[i].exc # NoExc}
    IN  IF bad = {} THEN Ok([i \in 1..Len(rs) |-> rs[i].val])
        ELSE Raise(rs[CHOOSE i \in bad : \A j \in bad : i <= j].exc)

\* re.findall(r"[\d.]+", s)[:1]: the first maximal run of digits and dots,
\* "" when there is none
FirstNumToken(s) ==
    LET isTok(i) == Ch(s, i) \in Digits \cup {"."}
        starts   == {i \in 1..Len(s) : isTok(i)}
    IN  IF starts = {} THEN ""
        ELSE LET a == CHOOSE i \in starts : \A j \in starts : i <= j
                 b == CHOOSE j \in a..Len(s) :
                        /\ \A k \in a..j : isTok(k)
                        /\ (j = Len(s) \/ ~isTok(j + 1))
             IN  SubSeq(s, a, b)

\* ------------------------------------------------- schemas.py: elements
\* An elements_json string is represented by the JSON document it holds:
\*   kind "invalid"  not JSON at all (json.loads raises JSONDecodeError; "" too)
\*   kind "array", "number", "string", "null"   valid JSON that is no object
\*   kind "object"   items: the decoded dict's (key, value) entries in order,
\*                   a value being a JSON number (t = "num", n in hundredths),
\*                   a JSON string (t = "str", s) or null (t = "null")
JNum(n) == [t |-> "num", n |-> n, s |-> ""]
JStr(s) == [t |-> "str", n |-> 0, s |-> s]
JNull == [t |-> "null", n |-> 0, s |-> ""]
JObject(items) == [kind |-> "object", items |-> items]
JOther(kind) == [kind |-> kind, items |-> <<>>]
Member(k, v) == [key |-> k, val |-> v]

\* float(v) of a decoded JSON value
FloatOfJson(v) ==
    CASE v.t = "num"  -> Ok(v.n)
      [] v.t = "str"  -> ParseFloat(v.s)
      [] v.t = "null" -> Raise("TypeError")

\* Element(symbol=str(k), value=float(v) if float(v) != -1 else 0,
\*         unit="at.%", is_balance=(float(v) == -1))
MakeElement(k, f) ==
    [symbol |-> k,
     value |-> IF f # Float(-1) THEN f ELSE 0,
     unit |-> "at.%",
     is_balance |-> (f = Float(-1))]

\* Element(...) for key k once float(v) has returned or raised
ElementOfFloat(k, f) == IF f.exc # NoExc THEN f ELSE Ok(MakeElement(k, f.val))

\* the list comprehension over d.items(): every member must convert
ElementsOfItems(items) ==
    Collect([i \in 1..Len(items) |->
                ElementOfFloat(items[i].key, FloatOfJson(items[i].val))])

\* the exceptions _parse_elements_json turns into []
ElementsCaught == {"JSONDecodeError", "TypeError", "ValueError"}

\* what the try body of _parse_elements_json does before any except clause
ElementsTry(raw) ==
    CASE raw.kind = "invalid" -> Raise("JSONDecodeError")
      [] raw.kind = "object"  -> ElementsOfItems(raw.items)
      [] OTHER                -> Raise("AttributeError")

\* except (json.JSONDecodeError, TypeError, ValueError): return []
ElementsExcept(r) == IF r.exc \in ElementsCaught THEN Ok(<<>>) ELSE r

\* _parse_elements_json(raw)
ParseElementsJson(raw) == ElementsExcept(ElementsTry(raw))

\* ---------------------------------------- schemas.py: aggregation of spans
\* A span (lx Extraction): extraction_class, extraction_text, attributes (a
\* dict of str; attribute elements_json holds the document described above),
\* char_interval (<<>> for None, else <<start_pos, end_pos>>), alignment
\* (alignment_status.value, None when unset) and chunk, the index of the
\* chunk whose text the tagger was given (0 when the span is built directly).
Span(cls, text, attrs) ==
    [extraction_class |-> cls, extraction_text |-> text, attributes |-> attrs,
     char_interval |-> <<>>, alignment |-> None, chunk |-> 0]

NoneInt == 0 - 1

\* EvidenceSpan(...) of one span
EvidenceOf(ext) ==
    [extraction_class |-> ext.extraction_class,
     text |-> ext.extraction_text,
     char_start |-> IF ext.char_interval # <<>> THEN ext.char_interval[1] ELSE NoneInt,
     char_end |-> IF ext.char_interval # <<>> THEN ext.char_interval[2] ELSE NoneInt,
     alignment |-> ext.alignment]

\* mutant: only composition spans are listed
AllEvidence_Compositions(extractions) ==
    SelectSeq([i \in 1..Len(extractions) |-> EvidenceOf(extractions[i])],
              LAMBDA e : e.extraction_class = "composition")

\* the first loop of group_extractions_to_entities
AllEvidence(extractions) ==
    [i \in 1..Len(extractions) |-> EvidenceOf(extractions[i])]

\* mutant: the formula attribute is not used as a group id
CompositionMid_NoFormula(ext) ==
    IF Truthy(Get(ext.attributes, "material_id", ""))
    THEN ext.attributes.material_id
    ELSE Prefix(ext.extraction_text, TEXT_PREFIX_LEN)

\* the id a composition span resolves to before the carry-forward test:
\* mid or attrs.get("formula", ext.extraction_text[:40])
CompositionMid(ext) ==
    LET attrs == ext.attributes
        mid   == Get(attrs, "material_id", "")
    IN  IF Truthy(mid) THEN mid
        ELSE Get(attrs, "formula", Prefix(ext.extraction_text, TEXT_PREFIX_LEN))

\* mutant: a property span with a material_id of its own re-anchors current_mid
NextCurrentMid_Property(current_mid, ext) ==
    IF ext.extraction_class = "composition" THEN CompositionMid(ext)
    ELSE IF ext.extraction_class = "property" /\ Truthy(Get(ext.attributes, "material_id", ""))
    THEN ext.attributes.material_id
    ELSE current_mid

\* mutant: any span that carries a material_id re-anchors current_mid
NextCurrentMid_Any(current_mid, ext) ==
    IF ext.extraction_class = "composition" THEN CompositionMid(ext)
    ELSE IF Truthy(Get(ext.attributes, "material_id", ""))
    THEN ext.attributes.material_id
    ELSE current_mid

\* current_mid after the span
NextCurrentMid(current_mid, ext) ==
    IF ext.extraction_class = "composition" THEN CompositionMid(ext) ELSE current_mid

\* the group id the span is filed under
ResolveMid(current_mid, ext) ==
    LET mid0 == IF ext.extraction_class = "composition"
                THEN CompositionMid(ext)
                ELSE Get(ext.attributes, "material_id", "")
    IN  IF ~Truthy(mid0) THEN NextCurrentMid(current_mid, ext) ELSE mid0

NewGroup(mid) ==
    [mid |-> mid, compositions |-> <<>>, processes |-> <<>>, properties |-> <<>>]

\* index of the group keyed mid in the ordered dict groups, 0 when absent
GroupIndex(groups, mid) ==
    IF \E i \in 1..Len(groups) : groups[i].mid = mid
    THEN CHOOSE i \in 1..Len(groups) : groups[i].mid = mid
    ELSE 0

\* AppendToGroup filing every composition span in the property list as well
AppendToGroup_Twice(g, cls, attrs) ==
    CASE cls = "composition" -> [g EXCEPT !.compositions = Append(@, attrs),
                                          !.properties = Append(@, attrs)]
      [] cls = "process"     -> [g EXCEPT !.processes = Append(@, attrs)]
      [] cls = "property"    -> [g EXCEPT !.properties = Append(@, attrs)]
      [] OTHER               -> g

\* groups[mid][<list of cls>].append(attrs)
AppendToGroup(g, cls, attrs) ==
    CASE cls = "composition" -> [g EXCEPT !.compositions = Append(@, attrs)]
      [] cls = "process"     -> [g EXCEPT !.processes = Append(@, attrs)]
      [] cls = "property"    -> [g EXCEPT !.properties = Append(@, attrs)]
      [] OTHER               -> g

\* one iteration of the grouping loop over st = [groups, current_mid]
GroupStep(st, ext) ==
    LET mid == ResolveMid(st.current_mid, ext)
        gs  == IF GroupIndex(st.groups, mid) = 0
               THEN Append(st.groups, NewGroup(mid))
               ELSE st.groups
        i   == GroupIndex(gs, mid)
    IN  [groups |-> [gs EXCEPT ![i] = AppendToGroup(@, ext.extraction_class, ext.attributes)],
         current_mid |-> NextCurrentMid(st.current_mid, ext)]

GroupInit == [groups |-> <<>>, current_mid |-> DEFAULT_MID]

RECURSIVE GroupLoop_Reversed(_, _)
\* mutant: the spans are visited in another order, last to first
GroupLoop_Reversed(st, extractions) ==
    IF extractions = <<>> THEN st
    ELSE GroupLoop_Reversed(GroupStep(st, extractions[Len(extractions)]),
                            SubSeq(extractions, 1, Len(extractions) - 1))

RECURSIVE GroupLoop(_, _)
\* the grouping loop over all spans
GroupLoop(st, extractions) ==
    IF extractions = <<>> THEN st
    ELSE GroupLoop(GroupStep(st, Head(extractions)), Tail(extractions))

\* ------------------------------------ schemas.py: one entity from a group
EmptyObject == JObject(<<>>)
Roles == {"Target", "Reference", "Other"}

\* for e in elements: e.unit = unit
WithUnit(elements, unit) ==
    [i \in 1..Len(elements) |-> [elements[i] EXCEPT !.unit = unit]]

CompInit == [formula |-> "", elements |-> <<>>, unit |-> "at.%", role |-> "Other",
             exc |-> NoExc]

\* mutant: the decoded list always replaces the elements, empty or not
KeepOrReplace_Always(elements, elems, unit) == WithUnit(elems, unit)

\* elements = elems when the decoded list is non-empty, else kept
KeepOrReplace(elements, elems, unit) ==
    IF elems # <<>> THEN WithUnit(elems, unit) ELSE elements

\* role_val after c, r being c.get("role", "").strip()
NextRole(role_val, r) == IF r \in Roles THEN r ELSE role_val

\* the body of the composition loop once _parse_elements_json has
\* returned or raised pe
CompApply(acc, c, pe) ==
    IF acc.exc # NoExc THEN acc
    ELSE IF pe.exc # NoExc
    THEN [acc EXCEPT !.exc = pe.exc]
    ELSE [formula |-> Get(c, "formula", acc.formula),
          elements |-> KeepOrReplace(acc.elements, pe.val, Get(c, "unit", acc.unit)),
          unit |-> Get(c, "unit", acc.unit),
          role |-> NextRole(acc.role, Strip(Get(c, "role", ""))),
          exc |-> NoExc]

\* one iteration of "for c in g['compositions']"
CompStep(acc, c) ==
    CompApply(acc, c, ParseElementsJson(Get(c, "elements_json", EmptyObject)))

RECURSIVE CompLoop(_, _)
CompLoop(acc, cs) ==
    IF cs = <<>> THEN acc ELSE CompLoop(CompStep(acc, Head(cs)), Tail(cs))

ProcInit == [method |-> "", heat_treatment |-> None, details_parts |-> <<>>]

\* mutant: details is overwritten by each span like the other fields
ProcStep_Overwrite(acc, p) ==
    [method |-> Get(p, "method", acc.method),
     heat_treatment |-> IF Truthy(Get(p, "heat_treatment", None))
                        THEN p.heat_treatment ELSE acc.heat_treatment,
     details_parts |-> IF Truthy(Get(p, "details", None))
                       THEN <<p.details>>
                       ELSE acc.details_parts]

\* one iteration of "for p in g['processes']"
ProcStep(acc, p) ==
    [method |-> Get(p, "method", acc.method),
     heat_treatment |-> IF Truthy(Get(p, "heat_treatment", None))
                        THEN p.heat_treatment ELSE acc.heat_treatment,
     details_parts |-> IF Truthy(Get(p, "details", None))
                       THEN Append(acc.details_parts, p.details)
                       ELSE acc.details_parts]

RECURSIVE ProcLoop(_, _)
ProcLoop(acc, ps) ==
    IF ps = <<>> THEN acc ELSE ProcLoop(ProcStep(acc, Head(ps)), Tail(ps))

RECURSIVE Join(_)
\* " ".join(parts)
Join(parts) ==
    IF parts = <<>> THEN ""
    ELSE IF Len(parts) = 1 THEN parts[1]
    ELSE parts[1] \o " " \o Join(Tail(parts))

\* Processing(method=method or "Unknown", heat_treatment=..., details=...)
MakeProcessing(acc) ==
    [method |-> IF Truthy(acc.method) THEN acc.method ELSE "Unknown",
     heat_treatment |-> acc.heat_treatment,
     details |-> IF acc.details_parts # <<>> THEN Strip(Join(acc.details_parts))
                 ELSE None]

\* Property(...) of one property attribute set whose value parsed as val
MakeProperty(pr, val) ==
    [property_type |-> Get(pr, "property_type", Get(pr, "name", "Unknown")),
     value |-> val,
     unit |-> Get(pr, "unit", ""),
     test_temperature |-> Get(pr, "test_temperature", Get(pr, "condition", None))]

\* mutant: a property equal to one already in the list is not added again
PropApply_Dedup(props, pr, f) ==
    IF f.exc # NoExc THEN props
    ELSE IF \E i \in 1..Len(props) : props[i] = MakeProperty(pr, f.val) THEN props
    ELSE Append(props, MakeProperty(pr, f.val))

\* the body of the property loop once float(pr.get("value", "")) has
\* returned or raised f
PropApply(props, pr, f) ==
    IF f.exc # NoExc THEN props ELSE Append(props, MakeProperty(pr, f.val))

\* one iteration of "for pr in g['properties']"
PropStep(props, pr) == PropApply(props, pr, ParseFloat(Get(pr, "value", "")))

RECURSIVE PropLoop(_, _)
PropLoop(props, prs) ==
    IF prs = <<>> THEN props ELSE PropLoop(PropStep(props, Head(prs)), Tail(prs))

\* MaterialEntity(...) of group g, comp being the outcome of its composition loop
MakeEntity(g, comp) ==
    IF comp.exc # NoExc THEN Raise(comp.exc)
    ELSE Ok([material_name |-> g.mid,
             formula |-> IF Truthy(comp.formula) THEN comp.formula ELSE g.mid,
             composition |-> comp.elements,
             process |-> MakeProcessing(ProcLoop(ProcInit, g.processes)),
             properties |-> PropLoop(<<>>, g.properties),
             microstructure |-> None,
             role |-> comp.role])

\* the body of "for mid, g in groups.items()": the entity, or the exception
BuildEntity(g) == MakeEntity(g, CompLoop(CompInit, g.compositions))

\* entities of all groups in insertion order; the first exception aborts
BuildEntities(groups) ==
    Collect([i \in 1..Len(groups) |-> BuildEntity(groups[i])])

\* the returned tuple (entities, all_evidence)
WithEvidence(es, extractions) ==
    IF es.exc # NoExc THEN es
    ELSE Ok([entities |-> es.val, evidence |-> AllEvidence(extractions)])

\* group_extractions_to_entities(extractions)
GroupExtractionsToEntities(extractions) ==
    WithEvidence(BuildEntities(GroupLoop(GroupInit, extractions).groups), extractions)

\* ------------------------------------------- schemas.py: target projection
ROOM_TEMP_K == 29800
CELSIUS_OFFSET == 27315

\* mutant: the number is returned as kelvin whatever the marker
TempOfValue_Kelvin(t, val) == val

\* "k" in t and "c" not in t: return val, else val + 273.15
TempOfValue(t, val) ==
    IF val.exc # NoExc THEN val
    ELSE IF Contains(t, "k") /\ ~Contains(t, "c") THEN val
    ELSE Ok(val.val + CELSIUS_OFFSET)

\* _parse_temp_to_k after t = temp_str.lower().strip(), tok being the first
\* match of [\d.]+ in temp_str ("" when nums is empty)
TempOfText(t, tok) ==
    IF Contains(t, "rt") \/ Contains(t, "room") THEN Ok(ROOM_TEMP_K)
    ELSE IF tok = "" THEN Ok(ROOM_TEMP_K)
    ELSE TempOfValue(t, ParseFloat(tok))

\* _parse_temp_to_k(temp_str): kelvin in hundredths, or the ValueError of float()
ParseTempToK(temp_str) ==
    IF ~Truthy(temp_str) THEN Ok(ROOM_TEMP_K)
    ELSE TempOfText(Strip(Lower(temp_str)), FirstNumToken(temp_str))

IsAlnum(c) == c \in Digits \cup Lowers \cup Uppers

RECURSIVE StripNonAlnum(_)
\* re.sub(r"[^a-zA-Z0-9]", "", s)
StripNonAlnum(s) ==
    IF s = "" THEN ""
    ELSE (IF IsAlnum(Ch(s, 1)) THEN Ch(s, 1) ELSE "") \o StripNonAlnum(SubSeq(s, 2, Len(s)))

\* safe_name
SafeName(material_name) ==
    LET n == Prefix(StripNonAlnum(material_name), SAFE_NAME_LEN)
    IN  IF n = "" THEN "Unknown" ELSE n

\* mutant: the balance flag is not translated back
WireValue_Plain(e) == e.value

\* the value written for one element: -1 if e.is_balance else e.value
WireValue(e) == IF e.is_balance THEN Float(-1) ELSE e.value

\* comp_dict as the JSON object json.dumps writes: a dict keeps one entry per
\* symbol, at the position of its first occurrence, with its last value
CompDict(composition) ==
    LET firsts == {i \in 1..Len(composition) :
                     \A j \in 1..(i - 1) : composition[j].symbol # composition[i].symbol}
        last(sym) == CHOOSE i \in 1..Len(composition) :
                        /\ composition[i].symbol = sym
                        /\ \A j \in (i + 1)..Len(composition) : composition[j].symbol # sym
        RECURSIVE build(_)
        build(i) == IF i > Len(composition) THEN <<>>
                    ELSE IF i \in firsts
                    THEN <<Member(composition[i].symbol,
                                  JNum(WireValue(composition[last(composition[i].symbol)])))>>
                         \o build(i + 1)
                    ELSE build(i + 1)
    IN  JObject(build(1))

\* f"{i:02d}"
TwoDigits(i) == IF i < 10 THEN "0" \o ToString(i) ELSE ToString(i)

\* one entry of Properties_Info once _parse_temp_to_k has returned or raised k
PropertyEntry(safe_name, i, p, k) ==
    IF k.exc # NoExc THEN k
    ELSE Ok([Test_ID |-> "T_" \o safe_name \o "_" \o TwoDigits(i),
             Sample_ID |-> "S_" \o safe_name \o "_AsBuilt",
             Test_Temperature_K |-> k.val,
             Property_Type |-> p.property_type,
             Property_Value |-> p.value,
             Property_Unit |-> p.unit])

\* one iteration of "for i, p in enumerate(entity.properties, 1)"
PropertyInfo(safe_name, i, p) ==
    PropertyEntry(safe_name, i, p, ParseTempToK(p.test_temperature))

\* props, or the exception that ends the loop
PropertiesInfo(safe_name, ps) ==
    Collect([i \in 1..Len(ps) |-> PropertyInfo(safe_name, i, ps[i])])

\* entity.process.details or entity.process.heat_treatment or entity.process.method or ""
ProcessText(process) ==
    IF Truthy(process.details) THEN process.details
    ELSE IF Truthy(process.heat_treatment) THEN process.heat_treatment
    ELSE IF Truthy(process.method) THEN process.method
    ELSE ""

\* the result dict of entity_to_target_json, safe_name and props computed.
\* Field evidence is the record's _evidence, <<>> when the key is not written.
TargetRecord(entity, source_pdf, evidence, safe_name, props) ==
    IF props.exc # NoExc THEN props
    ELSE Ok([source_pdf |-> source_pdf,
             role |-> entity.role,
             Composition_Info |->
                [Mat_ID |-> "M_" \o safe_name,
                 Alloy_Name_Raw |-> entity.material_name,
                 Formula_Normalized |-> entity.formula,
                 Composition_JSON |-> CompDict(entity.composition),
                 Source_DOI |-> source_pdf],
             Process_Info |->
                [Sample_ID |-> "S_" \o safe_name \o "_AsBuilt",
                 Mat_ID |-> "M_" \o safe_name,
                 Process_Category |-> IF Truthy(entity.process.method)
                                      THEN entity.process.method ELSE "Unknown",
                 Process_Text_For_AI |-> ProcessText(entity.process),
                 Microstructure_Text_For_AI |->
                    IF Truthy(entity.microstructure) THEN entity.microstructure ELSE ""],
             Properties_Info |-> props.val,
             evidence |-> evidence])

\* entity_to_target_json with safe_name computed
TargetOfName(entity, source_pdf, evidence, safe_name) ==
    TargetRecord(entity, source_pdf, evidence, safe_name,
                 PropertiesInfo(safe_name, entity.properties))

\* entity_to_target_json(entity, source_pdf, evidence): the record, or the
\* exception raised while building Properties_Info
EntityToTargetJson(entity, source_pdf, evidence) ==
    TargetOfName(entity, source_pdf, evidence, SafeName(entity.material_name))

\* =========================================================================
\* State
\* =========================================================================
VARIABLES
    \* --- elements_json round trip: _parse_elements_json, then the entity's
    \*     projection by entity_to_target_json
    j_raw,        \* the elements_json document
    j_pc,         \* "start", "parsed", "encoded", "raised"
    j_elements,   \* list[Element] returned by _parse_elements_json
    j_record,     \* Composition_JSON of the projected record
    j_exc,        \* the exception that escaped, NoExc when none
    \* --- one aggregation run: group_extractions_to_entities and the
    \*     projection loop of process_one_pdf
    a_ext,        \* the ordered span list
    a_pc,         \* "start", "group", "project", "done", "raised"
    a_pos,        \* index of the next span of the grouping loop
    a_groups,     \* groups, in insertion order
    a_current,    \* current_mid
    a_assigned,   \* history: the group id each span was filed under
    a_evidence,   \* all_evidence
    a_entities,   \* entities
    a_records,    \* records
    a_exc         \* the exception that escaped, NoExc when none

VARIABLES
    \* --- process_one_pdf on one document
    s_chunks,     \* chunks: the slices [lo, hi) of the cleaned text
    s_pc,         \* "chunk" loop head, "wait" in future.result, "exit" leaving
                  \* the with block, "done" returned, "raised"
    s_idx,        \* idx of the loop
    s_all,        \* all_extractions: (idx, spans) pairs as recorded
    s_timed_out,  \* history: the idx whose future.result timed out
    s_calls,      \* history: the tagger calls, with what each came to
    s_late,       \* history: spans returned by a call after its timeout
    s_merged,     \* the merged span list
    s_records,    \* the returned records
    s_exc,        \* the exception process_one_pdf raised, NoExc when none
    \* --- the executor's worker thread running _process_one_chunk
    w_pc,         \* "none", "whole", "half_a", "half_b", "returned"
    w_hung,       \* the tagger call in progress never returns
    w_ex_a,       \* ex_a
    w_result,     \* the returned (idx, spans)
    \* --- the merge of process_one_pdf on pairs recorded in any order
    m_pairs,      \* all_extractions
    m_pc,         \* "start", "merged"
    m_merged      \* merged

supVars == <<s_chunks, s_pc, s_idx, s_all, s_timed_out, s_calls, s_late, s_merged,
             s_records, s_exc, w_pc, w_hung, w_ex_a, w_result>>
mergeVars == <<m_pairs, m_pc, m_merged>>
jsonVars == <<j_raw, j_pc, j_elements, j_record, j_exc>>
aggVars == <<a_ext, a_pc, a_pos, a_groups, a_current, a_assigned, a_evidence,
             a_entities, a_records, a_exc>>

VARIABLES
    \* --- one call of _parse_temp_to_k
    t_str,        \* temp_str
    t_pc,         \* "start", "returned", "raised"
    t_out,        \* the returned value, in hundredths of a kelvin
    t_exc,        \* the exception that escaped, NoExc when none
    \* --- one call of chunk_text
    c_text,       \* text
    c_size,       \* chunk_size
    c_overlap,    \* overlap
    c_pc,         \* "start", "loop", "returned"
    c_start,      \* start
    c_chunks,     \* chunks: the slices [lo, hi) appended so far
    \* --- the document loop of main
    r_docs,       \* what process_one_pdf and the write come to, per document
    r_pc,         \* "loop", "returned"
    r_i,          \* i of the loop
    r_file,       \* the lines of the output file
    r_total,      \* total_records
    r_rc,         \* the value main returned, None before
    \* --- threads calling save_results_to_jsonl with _write_lock
    f_records,    \* records of each thread's call
    f_pc,         \* each thread: "call", "acquire", "open", "write", "release",
                  \* "returned"
    f_n,          \* each thread: records written so far
    f_lock,       \* the thread holding the lock, 0 when free
    f_file,       \* the lines of the output file, as (thread, record) pairs
    f_failed,     \* history: threads whose open or write raised
    f_locked,     \* history: threads that have taken the lock
    \* --- a second call of group_extractions_to_entities on the same list
    a_again       \* what second calls returned or raised, in order

tempVars == <<t_str, t_pc, t_out, t_exc>>
chunkVars == <<c_text, c_size, c_overlap, c_pc, c_start, c_chunks>>
mainVars == <<r_docs, r_pc, r_i, r_file, r_total, r_rc>>
saveVars == <<f_records, f_pc, f_n, f_lock, f_file, f_failed, f_locked>>

RECURSIVE SeqsUpTo(_, _)
\* all sequences over S of length at most n
SeqsUpTo(S, n) ==
    IF n = 0 THEN {<<>>}
    ELSE LET shorter == SeqsUpTo(S, n - 1)
         IN  shorter \cup {Append(s, x) : s \in {t \in shorter : Len(t) = n - 1}, x \in S}

\* ------------------------------------------------ elements_json documents
Symbols == {"Fe", "Ni", "Al"}
JsonValues == {JNum(Float(-1)), JNum(0), JNum(Float(30)), JNum(0 - 150), JNum(Float(1)),
               JStr("30"), JStr("x"), JNull}

\* the dicts json.loads can return for an object: distinct keys
JsonObjects ==
    {JObject(items) : items \in
        {s \in SeqsUpTo({Member(k, v) : k \in Symbols, v \in JsonValues}, MaxElems) :
            \A i, j \in 1..Len(s) : i # j => s[i].key # s[j].key}}

JsonDocs == JsonObjects \cup {JOther(k) : k \in {"invalid", "array", "number", "string", "null"}}

\* an object mapping element symbols to numeric values
WellFormed(raw) ==
    raw.kind = "object" /\ \A i \in 1..Len(raw.items) : raw.items[i].val.t = "num"

\* the state after elems = _parse_elements_json(raw) returned or raised r
JsonParsed(r) ==
    IF r.exc # NoExc
    THEN /\ j_pc' = "raised"
         /\ j_exc' = r.exc
         /\ UNCHANGED j_elements
    ELSE /\ j_pc' = "parsed"
         /\ j_elements' = r.val
         /\ UNCHANGED j_exc

\* elems = _parse_elements_json(raw)
JsonParse ==
    /\ j_pc = "start"
    /\ JsonParsed(ParseElementsJson(j_raw))
    /\ UNCHANGED <<j_raw, j_record>>
    /\ UNCHANGED <<supVars, mergeVars, aggVars, tempVars, chunkVars, mainVars, saveVars, a_again>>

\* MaterialEntity(material_name=..., formula=..., composition=elements, ...)
EntityOfElements(elements) ==
    [material_name |-> "A1", formula |-> "A1", composition |-> elements,
     process |-> MakeProcessing(ProcInit), properties |-> <<>>,
     microstructure |-> None, role |-> "Other"]

\* the state after entity_to_target_json returned or raised r
JsonEncoded(r) ==
    IF r.exc # NoExc
    THEN /\ j_pc' = "raised"
         /\ j_exc' = r.exc
         /\ UNCHANGED j_record
    ELSE /\ j_pc' = "encoded"
         /\ j_record' = r.val.Composition_Info.Composition_JSON
         /\ UNCHANGED j_exc

\* entity_to_target_json(entity, ...)["Composition_Info"]["Composition_JSON"]
JsonEncode ==
    /\ j_pc = "parsed"
    /\ JsonEncoded(EntityToTargetJson(EntityOfElements(j_elements), SOURCE_PDF, <<>>))
    /\ UNCHANGED <<j_raw, j_elements>>
    /\ UNCHANGED <<supVars, mergeVars, aggVars, tempVars, chunkVars, mainVars, saveVars, a_again>>

\* ------------------------------------------------------- span lists tried
LongText == "Ti42Hf21Nb21V16 refractory high-entropy alloy (RHEA)"
FeNi == JObject(<<Member("Fe", JNum(Float(-1))), Member("Ni", JNum(Float(30)))>>)
AlOnly == JObject(<<Member("Al", JNum(Float(5)))>>)

\* spans that differ in how their group id is resolved
PoolGroup ==
    {Span("composition", "NiAl", [material_id |-> "T1", formula |-> "NiAl"]),
     Span("composition", "X alloy", [formula |-> "X"]),
     Span("composition", LongText, [unit |-> "at.%"]),
     Span("composition", "the alloy", [material_id |-> "", formula |-> ""]),
     Span("property", "UTS of 500 MPa", [property_type |-> "UTS", value |-> "500"]),
     Span("property", "YS of 636 MPa", [material_id |-> "T2", value |-> "636"]),
     Span("process", "by DED", [method |-> "DED"]),
     Span("process", "annealed", [material_id |-> "", heat_treatment |-> "Annealed"])}

\* composition spans that differ in formula, unit and elements_json
PoolComp ==
    {Span("composition", "Fe-30Ni", [material_id |-> "T1", formula |-> "Fe-30Ni",
                                     elements_json |-> FeNi, unit |-> "wt.%"]),
     Span("composition", "Fe-30Ni", [material_id |-> "T1", formula |-> "F2",
                                     elements_json |-> JOther("invalid")]),
     Span("composition", "the alloy", [material_id |-> "T1"]),
     Span("composition", "the alloy", [material_id |-> "T1", formula |-> "",
                                       elements_json |-> EmptyObject]),
     Span("composition", "Al5", [material_id |-> "T1", formula |-> "Al5",
                                 elements_json |-> AlOnly]),
     Span("composition", "Al5", [material_id |-> "T2", elements_json |-> AlOnly,
                                 unit |-> "wt.%", role |-> " Target "]),
     Span("composition", "list", [material_id |-> "T2",
                                  elements_json |-> JOther("array")]),
     Span("composition", "null", [material_id |-> "T2", elements_json |->
                                  JObject(<<Member("Fe", JNull)>>)])}

\* property and process spans that differ in what parses
PoolProp ==
    {Span("composition", "NiAl", [material_id |-> "T1", formula |-> "NiAl"]),
     Span("property", "UTS of 500 MPa at 973C",
          [material_id |-> "T1", property_type |-> "UTS", value |-> "500",
           unit |-> "MPa", test_temperature |-> "973C"]),
     Span("property", "high strength", [material_id |-> "T1", value |-> "high"]),
     Span("property", "ductile", [material_id |-> "T1", property_type |-> "Elongation"]),
     Span("property", "22.5% at approx. 600 C",
          [material_id |-> "T2", name |-> "Elongation", value |-> "22.5",
           unit |-> "%", condition |-> "approx. 600 C"]),
     Span("property", "636 MPa at 873 K",
          [material_id |-> "T1", property_type |-> "YS", value |-> "636",
           unit |-> "MPa", test_temperature |-> "873 K"]),
     Span("property", "1030 MPa",
          [material_id |-> "T2", property_type |-> "YS", value |-> " 1030 ",
           test_temperature |-> "Room Temperature"]),
     Span("process", "DED at 550 W",
          [material_id |-> "T1", method |-> "DED", heat_treatment |-> "",
           details |-> "laser power 550 W"]),
     Span("process", "annealed for 2h",
          [material_id |-> "T1", heat_treatment |-> "Annealed", details |-> "2h "]),
     Span("process", "cast", [material_id |-> "T1", method |-> ""])}

\* spans of materials whose names differ only in punctuation or after the
\* fifteenth letter or digit
PoolNames ==
    {Span("composition", "Ti-6Al-4V", [material_id |-> "Ti-6Al-4V", formula |-> "Ti-6Al-4V"]),
     Span("composition", "Ti6Al4V", [material_id |-> "Ti6Al4V"]),
     Span("composition", "Ti42Hf21Nb21V16-A", [formula |-> "Ti42Hf21Nb21V16-A"]),
     Span("composition", "Ti42Hf21Nb21V16-B", [formula |-> "Ti42Hf21Nb21V16-B"]),
     Span("property", "UTS of 900 MPa", [property_type |-> "UTS", value |-> "900"]),
     Span("property", "YS of 830 MPa", [material_id |-> "(?)", value |-> "830"])}

Pools == {PoolGroup, PoolComp, PoolProp, PoolNames}


\* -------------------------------------------------------- aggregation run
\* the evidence loop, then groups = {} and current_mid = "__default__"
AggStart ==
    /\ a_pc = "start"
    /\ a_evidence' = AllEvidence(a_ext)
    /\ a_groups' = GroupInit.groups
    /\ a_current' = GroupInit.current_mid
    /\ a_pc' = "group"
    /\ UNCHANGED <<a_ext, a_pos, a_assigned, a_entities, a_records, a_exc>>
    /\ UNCHANGED <<supVars, mergeVars, jsonVars, tempVars, chunkVars, mainVars, saveVars, a_again>>

\* the state after one iteration of the grouping loop left st
AggGrouped(st) ==
    /\ a_groups' = st.groups
    /\ a_current' = st.current_mid

\* one iteration of "for ext in extractions"
AggGroupSpan ==
    /\ a_pc = "group"
    /\ a_pos <= Len(a_ext)
    /\ AggGrouped(GroupStep([groups |-> a_groups, current_mid |-> a_current], a_ext[a_pos]))
    /\ a_assigned' = Append(a_assigned, ResolveMid(a_current, a_ext[a_pos]))
    /\ a_pos' = a_pos + 1
    /\ UNCHANGED <<a_ext, a_pc, a_evidence, a_entities, a_records, a_exc>>
    /\ UNCHANGED <<supVars, mergeVars, jsonVars, tempVars, chunkVars, mainVars, saveVars, a_again>>

\* the state after the entity loop returned or raised r
AggBuilt(r) ==
    IF r.exc # NoExc
    THEN /\ a_pc' = "raised"
         /\ a_exc' = r.exc
         /\ UNCHANGED a_entities
    ELSE /\ a_pc' = "project"
         /\ a_entities' = r.val
         /\ UNCHANGED a_exc

\* "for mid, g in groups.items()" and the return
AggBuildEntities ==
    /\ a_pc = "group"
    /\ a_pos > Len(a_ext)
    /\ AggBuilt(BuildEntities(a_groups))
    /\ UNCHANGED <<a_ext, a_pos, a_groups, a_current, a_assigned, a_evidence, a_records>>
    /\ UNCHANGED <<supVars, mergeVars, jsonVars, tempVars, chunkVars, mainVars, saveVars, a_again>>

\* records = [entity_to_target_json(entity, pdf, evidence) for entity in entities]
ProjectAll(entities, evidence) ==
    Collect([i \in 1..Len(entities) |-> EntityToTargetJson(entities[i], SOURCE_PDF, evidence)])

\* the state after the projection loop returned or raised r
AggProjected(r) ==
    IF r.exc # NoExc
    THEN /\ a_pc' = "raised"
         /\ a_exc' = r.exc
         /\ UNCHANGED a_records
    ELSE /\ a_pc' = "done"
         /\ a_records' = r.val
         /\ UNCHANGED a_exc

\* the projection loop of process_one_pdf
AggProject ==
    /\ a_pc = "project"
    /\ AggProjected(ProjectAll(a_entities, a_evidence))
    /\ UNCHANGED <<a_ext, a_pos, a_groups, a_current, a_assigned, a_evidence, a_entities>>
    /\ UNCHANGED <<supVars, mergeVars, jsonVars, tempVars, chunkVars, mainVars, saveVars, a_again>>

\* group_extractions_to_entities(all_extractions) called once more on the
\* same list after the document's run has ended
AggRerun ==
    /\ a_pc \in {"done", "raised"}
    /\ a_again = <<>>
    /\ a_again' = <<GroupExtractionsToEntities(a_ext)>>
    /\ UNCHANGED <<supVars, mergeVars, jsonVars, aggVars, tempVars, chunkVars, mainVars, saveVars>>

vars == <<supVars, mergeVars, jsonVars, aggVars, tempVars, chunkVars, mainVars, saveVars,
          a_again>>

\* ------------------------------------------------- pdf_utils.py: chunk_text
\* text[lo:hi], by its bounds
Slice(lo, hi) == [lo |-> lo, hi |-> hi]
SliceLen(c) == c.hi - c.lo

\* mutant: the next chunk starts where the previous one ended
NextStart_NoOverlap(end, overlap) == end

\* start = end - overlap; if start >= end: start = end
NextStart(end, overlap) == IF end - overlap >= end THEN end ELSE end - overlap

RECURSIVE ChunkLoop(_, _, _, _)
\* the while loop of chunk_text on a text of length len, from start
ChunkLoop(len, size, overlap, start) ==
    IF ~(start < len) THEN <<>>
    ELSE IF Min(start + size, len) >= len
    THEN <<Slice(start, Min(start + size, len))>>
    ELSE <<Slice(start, Min(start + size, len))>>
         \o ChunkLoop(len, size, overlap, NextStart(Min(start + size, len), overlap))

\* chunk_text(text, chunk_size, overlap) on a text of length len
ChunkText(len, size, overlap) ==
    IF len = 0 \/ size <= 0 THEN <<>>
    ELSE IF len <= size THEN <<Slice(0, len)>>
    ELSE ChunkLoop(len, size, overlap, 0)

\* --------------------------------------------- main.py: the tagger boundary
ParseErrors == {"ResolverParsingError", "JSONDecodeError"}
TaggerErrors == ParseErrors \cup {"ConnectionError", "RuntimeError"}

\* label of a tagger call: str(idx), f"{label}a", f"{label}b"
Label(idx, part) == ToString(idx) \o part

\* spans the tagger may return for the piece labelled Label(idx, part) of chunk idx
CompSpanOf(idx, part) ==
    [Span("composition", "NiAl in " \o Label(idx, part),
          [material_id |-> "T" \o ToString(idx), formula |-> "NiAl"])
     EXCEPT !.chunk = idx]
PropSpanOf(idx, part) ==
    [Span("property", "UTS in " \o Label(idx, part),
          [property_type |-> "UTS", value |-> "500", unit |-> "MPa",
           test_temperature |-> "973C"])
     EXCEPT !.chunk = idx]
BadTempSpanOf(idx, part) ==
    [Span("property", "YS in " \o Label(idx, part),
          [value |-> "636", test_temperature |-> "approx. 600 C"])
     EXCEPT !.chunk = idx]

TaggerOutputs(idx, part) ==
    {<<>>,
     <<CompSpanOf(idx, part)>>,
     <<CompSpanOf(idx, part), PropSpanOf(idx, part)>>,
     <<BadTempSpanOf(idx, part)>>}

\* one tagger call as the history keeps it: the piece it was given, and how
\* it ended ("pending", "returned", or the exception it raised)
Call(idx, part, piece) ==
    [idx |-> idx, part |-> part, lo |-> piece.lo, hi |-> piece.hi,
     outcome |-> "pending", spans |-> <<>>]

\* the last call of the history ended with outcome and spans
EndCall(calls, outcome, spans) ==
    [calls EXCEPT ![Len(calls)] = [@ EXCEPT !.outcome = outcome, !.spans = spans]]

\* --------------------------------------------- main.py: _process_one_chunk
\* half = len(chunk) // 2; chunk[:half] and chunk[half:]
FirstHalf(c) == Slice(c.lo, c.lo + (SliceLen(c) \div 2))

\* mutant: the second half starts at the length halved and rounded up
SecondHalf_RoundedUp(c) == Slice(c.lo + ((SliceLen(c) + 1) \div 2), c.hi)

\* ex_b = process_chunk(chunk[half:], ...): the piece the second call is given
SecondHalf(c) == Slice(c.lo + (SliceLen(c) \div 2), c.hi)

\* mutant: a chunk of exactly MIN_CHUNK_RETRY characters is retried too
RetriesHalves_AtThreshold(e, c) == e \in ParseErrors /\ SliceLen(c) >= MIN_CHUNK_RETRY

\* mutant: any exception of the whole-chunk call leads to the retry
RetriesHalves_AnyError(e, c) == SliceLen(c) > MIN_CHUNK_RETRY

\* the whole-chunk call raised e: is the chunk retried as two halves
RetriesHalves(e, c) == e \in ParseErrors /\ SliceLen(c) > MIN_CHUNK_RETRY

\* combined = ex_a + ex_b
Combined(ex_a, ex_b) == ex_a \o ex_b

\* ------------------------------------------------ main.py: process_one_pdf
\* all_extractions.append((idx, ex)) after future.result returned
PairOnResult(all, idx, ex) == Append(all, <<idx, ex>>)

\* mutant: the timeout handler records nothing
PairOnTimeout_Dropped(all, idx) == all

\* all_extractions.append((idx, [])) after future.result timed out
PairOnTimeout(all, idx) == Append(all, <<idx, <<>>>>)

\* mutant: the result of the joined worker replaces the recorded pair
LeaveWith_Collect(all, result) == [all EXCEPT ![Len(all)] = result]

\* all_extractions after the with block is left: the future is not read again
LeaveWith(all, result) == all

\* the place of pair p in a list sorted by index: after the pairs whose
\* index is not greater (list.sort is stable)
InsertPair(sorted, p) ==
    LET k == Cardinality({i \in 1..Len(sorted) : sorted[i][1] <= p[1]})
    IN  SubSeq(sorted, 1, k) \o <<p>> \o SubSeq(sorted, k + 1, Len(sorted))

\* mutant: the pairs are merged in the order they were recorded
SortPairs_None(pairs) == pairs

RECURSIVE SortPairs(_)
\* all_extractions.sort(key=lambda x: x[0])
SortPairs(pairs) ==
    IF pairs = <<>> THEN <<>>
    ELSE InsertPair(SortPairs(SubSeq(pairs, 1, Len(pairs) - 1)), pairs[Len(pairs)])

RECURSIVE Extend(_)
\* merged = []; for _, ex in all_extractions: merged.extend(ex)
Extend(pairs) ==
    IF pairs = <<>> THEN <<>> ELSE Head(pairs)[2] \o Extend(Tail(pairs))

\* the merge of process_one_pdf
MergePairs(pairs) == Extend(SortPairs(pairs))

\* the projection loop, entities being what group_extractions_to_entities
\* returned or raised
RecordsOf(r) ==
    IF r.exc # NoExc THEN r ELSE ProjectAll(r.val.entities, r.val.evidence)

\* process_one_pdf after the merge: the records, or the exception
ProcessMerged(merged) ==
    IF merged = <<>> THEN Ok(<<>>)
    ELSE RecordsOf(GroupExtractionsToEntities(merged))

\* ------------------------------------------------------ supervisor actions
CurChunk == s_chunks[s_idx]

\* spans returned after the wait for their chunk had timed out
LateAfter(result) ==
    IF s_idx \in s_timed_out /\ result[2] # <<>> THEN Append(s_late, result) ELSE s_late

\* _process_one_chunk returns result
WorkerReturn(result) ==
    /\ w_pc' = "returned"
    /\ w_result' = result
    /\ s_late' = LateAfter(result)

\* executor.submit(_process_one_chunk, idx, ch, ...): the worker thread
\* starts the whole-chunk tagger call
Submit ==
    /\ s_pc = "chunk"
    /\ s_idx <= Len(s_chunks)
    /\ s_pc' = "wait"
    /\ w_pc' = "whole"
    /\ w_hung' = FALSE
    /\ w_ex_a' = <<>>
    /\ s_calls' = Append(s_calls, Call(s_idx, "", CurChunk))
    /\ UNCHANGED <<s_chunks, s_idx, s_all, s_timed_out, s_late, s_merged, s_records,
                   s_exc, w_result>>
    /\ UNCHANGED <<mergeVars, jsonVars, aggVars, tempVars, chunkVars, mainVars, saveVars, a_again>>

\* the tagger call in progress never returns
TaggerHangs ==
    /\ w_pc \in {"whole", "half_a", "half_b"}
    /\ ~w_hung
    /\ w_hung' = TRUE
    /\ UNCHANGED <<s_chunks, s_pc, s_idx, s_all, s_timed_out, s_calls, s_late, s_merged,
                   s_records, s_exc, w_pc, w_ex_a, w_result>>
    /\ UNCHANGED <<mergeVars, jsonVars, aggVars, tempVars, chunkVars, mainVars, saveVars, a_again>>

\* process_chunk(chunk, ...) returns ex: return (idx, ex)
WholeReturns ==
    /\ w_pc = "whole" /\ ~w_hung
    /\ \E ex \in TaggerOutputs(s_idx, "") :
          /\ s_calls' = EndCall(s_calls, "returned", ex)
          /\ WorkerReturn(<<s_idx, ex>>)
    /\ UNCHANGED <<s_chunks, s_pc, s_idx, s_all, s_timed_out, s_merged, s_records,
                   s_exc, w_hung, w_ex_a>>
    /\ UNCHANGED <<mergeVars, jsonVars, aggVars, tempVars, chunkVars, mainVars, saveVars, a_again>>

\* process_chunk(chunk, ...) raises a parse error on a chunk longer than
\* MIN_CHUNK_RETRY: the first half is tried
WholeRaisesRetry ==
    /\ w_pc = "whole" /\ ~w_hung
    /\ \E e \in TaggerErrors :
          /\ RetriesHalves(e, CurChunk)
          /\ s_calls' = Append(EndCall(s_calls, e, <<>>),
                               Call(s_idx, "a", FirstHalf(CurChunk)))
    /\ w_pc' = "half_a"
    /\ UNCHANGED <<s_chunks, s_pc, s_idx, s_all, s_timed_out, s_late, s_merged,
                   s_records, s_exc, w_hung, w_ex_a, w_result>>
    /\ UNCHANGED <<mergeVars, jsonVars, aggVars, tempVars, chunkVars, mainVars, saveVars, a_again>>

\* process_chunk(chunk, ...) raises and the chunk is not retried: return (idx, [])
WholeRaisesSkip ==
    /\ w_pc = "whole" /\ ~w_hung
    /\ \E e \in TaggerErrors :
          /\ ~RetriesHalves(e, CurChunk)
          /\ s_calls' = EndCall(s_calls, e, <<>>)
    /\ WorkerReturn(<<s_idx, <<>>>>)
    /\ UNCHANGED <<s_chunks, s_pc, s_idx, s_all, s_timed_out, s_merged, s_records,
                   s_exc, w_hung, w_ex_a>>
    /\ UNCHANGED <<mergeVars, jsonVars, aggVars, tempVars, chunkVars, mainVars, saveVars, a_again>>

\* ex_a = process_chunk(chunk[:half], ...) returns: the second half is tried
HalfAReturns ==
    /\ w_pc = "half_a" /\ ~w_hung
    /\ \E ex \in TaggerOutputs(s_idx, "a") :
          /\ w_ex_a' = ex
          /\ s_calls' = Append(EndCall(s_calls, "returned", ex),
                               Call(s_idx, "b", SecondHalf(CurChunk)))
    /\ w_pc' = "half_b"
    /\ UNCHANGED <<s_chunks, s_pc, s_idx, s_all, s_timed_out, s_late, s_merged,
                   s_records, s_exc, w_hung, w_result>>
    /\ UNCHANGED <<mergeVars, jsonVars, aggVars, tempVars, chunkVars, mainVars, saveVars, a_again>>

\* ex_b = process_chunk(chunk[half:], ...) returns: return (idx, ex_a + ex_b)
HalfBReturns ==
    /\ w_pc = "half_b" /\ ~w_hung
    /\ \E ex \in TaggerOutputs(s_idx, "b") :
          /\ s_calls' = EndCall(s_calls, "returned", ex)
          /\ WorkerReturn(<<s_idx, Combined(w_ex_a, ex)>>)
    /\ UNCHANGED <<s_chunks, s_pc, s_idx, s_all, s_timed_out, s_merged, s_records,
                   s_exc, w_hung, w_ex_a>>
    /\ UNCHANGED <<mergeVars, jsonVars, aggVars, tempVars, chunkVars, mainVars, saveVars, a_again>>

\* either half raises: "except Exception as e2", then return (idx, [])
HalfRaises ==
    /\ w_pc \in {"half_a", "half_b"} /\ ~w_hung
    /\ \E e \in TaggerErrors : s_calls' = EndCall(s_calls, e, <<>>)
    /\ WorkerReturn(<<s_idx, <<>>>>)
    /\ UNCHANGED <<s_chunks, s_pc, s_idx, s_all, s_timed_out, s_merged, s_records,
                   s_exc, w_hung, w_ex_a>>
    /\ UNCHANGED <<mergeVars, jsonVars, aggVars, tempVars, chunkVars, mainVars, saveVars, a_again>>

\* future.result(timeout=CHUNK_TIMEOUT) returns the worker's tuple
Result ==
    /\ s_pc = "wait"
    /\ w_pc = "returned"
    /\ s_all' = PairOnResult(s_all, s_idx, w_result[2])
    /\ s_pc' = "exit"
    /\ UNCHANGED <<s_chunks, s_idx, s_timed_out, s_calls, s_late, s_merged, s_records,
                   s_exc, w_pc, w_hung, w_ex_a, w_result>>
    /\ UNCHANGED <<mergeVars, jsonVars, aggVars, tempVars, chunkVars, mainVars, saveVars, a_again>>

\* future.result(timeout=CHUNK_TIMEOUT) raises: the worker has not returned
\* when CHUNK_TIMEOUT expires
Timeout ==
    /\ s_pc = "wait"
    /\ w_pc # "returned"
    /\ s_all' = PairOnTimeout(s_all, s_idx)
    /\ s_timed_out' = s_timed_out \cup {s_idx}
    /\ s_pc' = "exit"
    /\ UNCHANGED <<s_chunks, s_idx, s_calls, s_late, s_merged, s_records,
                   s_exc, w_pc, w_hung, w_ex_a, w_result>>
    /\ UNCHANGED <<mergeVars, jsonVars, aggVars, tempVars, chunkVars, mainVars, saveVars, a_again>>

\* mutant: the with block is left without waiting for the worker thread
ExitWith_NoJoin ==
    /\ s_pc = "exit"
    /\ s_all' = LeaveWith(s_all, w_result)
    /\ w_pc' = "none"
    /\ s_idx' = s_idx + 1
    /\ s_pc' = "chunk"
    /\ UNCHANGED <<s_chunks, s_timed_out, s_calls, s_late, s_merged, s_records,
                   s_exc, w_hung, w_ex_a, w_result>>
    /\ UNCHANGED <<mergeVars, jsonVars, aggVars, tempVars, chunkVars, mainVars, saveVars, a_again>>

\* the with block is left: ThreadPoolExecutor.__exit__ is shutdown(wait=True),
\* which joins the worker thread; then the next iteration
ExitWith ==
    /\ s_pc = "exit"
    /\ w_pc = "returned"
    /\ s_all' = LeaveWith(s_all, w_result)
    /\ w_pc' = "none"
    /\ s_idx' = s_idx + 1
    /\ s_pc' = "chunk"
    /\ UNCHANGED <<s_chunks, s_timed_out, s_calls, s_late, s_merged, s_records,
                   s_exc, w_hung, w_ex_a, w_result>>
    /\ UNCHANGED <<mergeVars, jsonVars, aggVars, tempVars, chunkVars, mainVars, saveVars, a_again>>

\* the state after the rest of process_one_pdf returned or raised r
Finished(r) ==
    IF r.exc # NoExc
    THEN /\ s_pc' = "raised"
         /\ s_exc' = r.exc
         /\ UNCHANGED s_records
    ELSE /\ s_pc' = "done"
         /\ s_records' = r.val
         /\ UNCHANGED s_exc

\* after the loop: sort, merge, aggregate, project, return
Finish ==
    /\ s_pc = "chunk"
    /\ s_idx > Len(s_chunks)
    /\ s_merged' = MergePairs(s_all)
    /\ Finished(ProcessMerged(MergePairs(s_all)))
    /\ UNCHANGED <<s_chunks, s_idx, s_all, s_timed_out, s_calls, s_late,
                   w_pc, w_hung, w_ex_a, w_result>>
    /\ UNCHANGED <<mergeVars, jsonVars, aggVars, tempVars, chunkVars, mainVars, saveVars, a_again>>

\* ------------------------------------------------------------ merge action
MergeAll ==
    /\ m_pc = "start"
    /\ m_merged' = MergePairs(m_pairs)
    /\ m_pc' = "merged"
    /\ UNCHANGED m_pairs
    /\ UNCHANGED <<supVars, jsonVars, aggVars, tempVars, chunkVars, mainVars, saveVars, a_again>>

\* ---------------------------------------------------------- specifications

\* lengths of the cleaned text and values of --chunk tried
DocLens == {0, 1800, 2001, 4500}
ChunkSizes == {2000, 2500, 6000}

\* process_one_pdf up to the chunk loop
Init ==
    /\ \E len \in DocLens, size \in ChunkSizes : s_chunks = ChunkText(len, size, OVERLAP)
    /\ s_pc = "chunk"
    /\ s_idx = 1
    /\ s_all = <<>>
    /\ s_timed_out = {}
    /\ s_calls = <<>>
    /\ s_late = <<>>
    /\ s_merged = <<>>
    /\ s_records = <<>>
    /\ s_exc = NoExc
    /\ w_pc = "none"
    /\ w_hung = FALSE
    /\ w_ex_a = <<>>
    /\ w_result = <<0, <<>>>>
    /\ m_pairs = <<>>
    /\ m_pc = "idle"
    /\ m_merged = <<>>
    /\ j_raw = EmptyObject
    /\ j_pc = "idle"
    /\ j_elements = <<>>
    /\ j_record = EmptyObject
    /\ j_exc = NoExc
    /\ a_ext = <<>>
    /\ a_pc = "idle"
    /\ a_pos = 1
    /\ a_groups = <<>>
    /\ a_current = DEFAULT_MID
    /\ a_assigned = <<>>
    /\ a_evidence = <<>>
    /\ a_entities = <<>>
    /\ a_records = <<>>
    /\ a_exc = NoExc
    /\ t_str = None
    /\ t_pc = "idle"
    /\ t_out = 0
    /\ t_exc = NoExc
    /\ c_text = ""
    /\ c_size = 1
    /\ c_overlap = 0
    /\ c_pc = "idle"
    /\ c_start = 0
    /\ c_chunks = <<>>
    /\ r_docs = <<>>
    /\ r_pc = "idle"
    /\ r_i = 1
    /\ r_file = <<>>
    /\ r_total = 0
    /\ r_rc = None
    /\ f_records = <<>>
    /\ f_pc = <<>>
    /\ f_n = <<>>
    /\ f_lock = 0
    /\ f_file = <<>>
    /\ f_failed = {}
    /\ f_locked = {}
    /\ a_again = <<>>

Next ==
    \/ Submit
    \/ TaggerHangs
    \/ WholeReturns
    \/ WholeRaisesRetry
    \/ WholeRaisesSkip
    \/ HalfAReturns
    \/ HalfBReturns
    \/ HalfRaises
    \/ Result
    \/ Timeout
    \/ ExitWith
    \/ Finish

Spec == Init /\ [][Next]_vars

\* (chunk_index, spans) pairs with distinct indices, recorded in any order
PairPool == {<<k, ex>> : k \in 1..MaxPairs, ex \in UNION {TaggerOutputs(i, "") : i \in 1..MaxPairs}}

InitMerge ==
    /\ m_pairs \in {p \in SeqsUpTo({q \in PairPool : \A i \in 1..Len(q[2]) : q[2][i].chunk = q[1]},
                                   MaxPairs) :
                       \A i, j \in 1..Len(p) : i # j => p[i][1] # p[j][1]}
    /\ m_pc = "start"
    /\ m_merged = <<>>
    /\ s_chunks = <<>>
    /\ s_pc = "idle"
    /\ s_idx = 1
    /\ s_all = <<>>
    /\ s_timed_out = {}
    /\ s_calls = <<>>
    /\ s_late = <<>>
    /\ s_merged = <<>>
    /\ s_records = <<>>
    /\ s_exc = NoExc
    /\ w_pc = "none"
    /\ w_hung = FALSE
    /\ w_ex_a = <<>>
    /\ w_result = <<0, <<>>>>
    /\ j_raw = EmptyObject
    /\ j_pc = "idle"
    /\ j_elements = <<>>
    /\ j_record = EmptyObject
    /\ j_exc = NoExc
    /\ a_ext = <<>>
    /\ a_pc = "idle"
    /\ a_pos = 1
    /\ a_groups = <<>>
    /\ a_current = DEFAULT_MID
    /\ a_assigned = <<>>
    /\ a_evidence = <<>>
    /\ a_entities = <<>>
    /\ a_records = <<>>
    /\ a_exc = NoExc
    /\ t_str = None
    /\ t_pc = "idle"
    /\ t_out = 0
    /\ t_exc = NoExc
    /\ c_text = ""
    /\ c_size = 1
    /\ c_overlap = 0
    /\ c_pc = "idle"
    /\ c_start = 0
    /\ c_chunks = <<>>
    /\ r_docs = <<>>
    /\ r_pc = "idle"
    /\ r_i = 1
    /\ r_file = <<>>
    /\ r_total = 0
    /\ r_rc = None
    /\ f_records = <<>>
    /\ f_pc = <<>>
    /\ f_n = <<>>
    /\ f_lock = 0
    /\ f_file = <<>>
    /\ f_failed = {}
    /\ f_locked = {}
    /\ a_again = <<>>

NextMerge == MergeAll

SpecMerge == InitMerge /\ [][NextMerge]_vars

InitJson ==
    /\ j_raw \in JsonDocs
    /\ j_pc = "start"
    /\ j_elements = <<>>
    /\ j_record = EmptyObject
    /\ j_exc = NoExc
    /\ a_ext = <<>>
    /\ a_pc = "idle"
    /\ a_pos = 1
    /\ a_groups = <<>>
    /\ a_current = DEFAULT_MID
    /\ a_assigned = <<>>
    /\ a_evidence = <<>>
    /\ a_entities = <<>>
    /\ a_records = <<>>
    /\ a_exc = NoExc
    /\ s_chunks = <<>>
    /\ s_pc = "idle"
    /\ s_idx = 1
    /\ s_all = <<>>
    /\ s_timed_out = {}
    /\ s_calls = <<>>
    /\ s_late = <<>>
    /\ s_merged = <<>>
    /\ s_records = <<>>
    /\ s_exc = NoExc
    /\ w_pc = "none"
    /\ w_hung = FALSE
    /\ w_ex_a = <<>>
    /\ w_result = <<0, <<>>>>
    /\ m_pairs = <<>>
    /\ m_pc = "idle"
    /\ m_merged = <<>>
    /\ t_str = None
    /\ t_pc = "idle"
    /\ t_out = 0
    /\ t_exc = NoExc
    /\ c_text = ""
    /\ c_size = 1
    /\ c_overlap = 0
    /\ c_pc = "idle"
    /\ c_start = 0
    /\ c_chunks = <<>>
    /\ r_docs = <<>>
    /\ r_pc = "idle"
    /\ r_i = 1
    /\ r_file = <<>>
    /\ r_total = 0
    /\ r_rc = None
    /\ f_records = <<>>
    /\ f_pc = <<>>
    /\ f_n = <<>>
    /\ f_lock = 0
    /\ f_file = <<>>
    /\ f_failed = {}
    /\ f_locked = {}
    /\ a_again = <<>>

NextJson == JsonParse \/ JsonEncode

SpecJson == InitJson /\ [][NextJson]_vars

InitAgg ==
    /\ a_ext \in UNION {SeqsUpTo(P, MaxSpans) : P \in Pools}
    /\ a_pc = "start"
    /\ a_pos = 1
    /\ a_groups = <<>>
    /\ a_current = DEFAULT_MID
    /\ a_assigned = <<>>
    /\ a_evidence = <<>>
    /\ a_entities = <<>>
    /\ a_records = <<>>
    /\ a_exc = NoExc
    /\ j_raw = EmptyObject
    /\ j_pc = "idle"
    /\ j_elements = <<>>
    /\ j_record = EmptyObject
    /\ j_exc = NoExc
    /\ s_chunks = <<>>
    /\ s_pc = "idle"
    /\ s_idx = 1
    /\ s_all = <<>>
    /\ s_timed_out = {}
    /\ s_calls = <<>>
    /\ s_late = <<>>
    /\ s_merged = <<>>
    /\ s_records = <<>>
    /\ s_exc = NoExc
    /\ w_pc = "none"
    /\ w_hung = FALSE
    /\ w_ex_a = <<>>
    /\ w_result = <<0, <<>>>>
    /\ m_pairs = <<>>
    /\ m_pc = "idle"
    /\ m_merged = <<>>
    /\ t_str = None
    /\ t_pc = "idle"
    /\ t_out = 0
    /\ t_exc = NoExc
    /\ c_text = ""
    /\ c_size = 1
    /\ c_overlap = 0
    /\ c_pc = "idle"
    /\ c_start = 0
    /\ c_chunks = <<>>
    /\ r_docs = <<>>
    /\ r_pc = "idle"
    /\ r_i = 1
    /\ r_file = <<>>
    /\ r_total = 0
    /\ r_rc = None
    /\ f_records = <<>>
    /\ f_pc = <<>>
    /\ f_n = <<>>
    /\ f_lock = 0
    /\ f_file = <<>>
    /\ f_failed = {}
    /\ f_locked = {}
    /\ a_again = <<>>

NextAgg == AggStart \/ AggGroupSpan \/ AggBuildEntities \/ AggProject \/ AggRerun

SpecAgg == InitAgg /\ [][NextAgg]_vars

\* ------------------------------------------- one call of _parse_temp_to_k
TempLeads == {"", " ", "at ", "approx. ", "T="}
TempNumbers == {"", "600", "873", "25", "0", "1000.5", "1.5.2", "77"}
TempUnits == {"", "C", " C", "K", " K", " k"}

\* the values of test_temperature tried: unset, empty, and texts with and
\* without a number, a Celsius or Kelvin marker and a room-temperature word
TempInputs ==
    {None, "", "Room Temperature", "RT", "room temp", "high", "600C", "873 K",
     "77 K (cryogenic)", "Rt 500 C", "elevated (873 K)"}
    \cup {l \o n \o u : l \in TempLeads, n \in TempNumbers, u \in TempUnits}

\* the state after _parse_temp_to_k returned or raised k
TempReturned(k) ==
    IF k.exc # NoExc
    THEN /\ t_pc' = "raised"
         /\ t_exc' = k.exc
         /\ UNCHANGED t_out
    ELSE /\ t_pc' = "returned"
         /\ t_out' = k.val
         /\ UNCHANGED t_exc

\* _parse_temp_to_k(temp_str)
TempCall ==
    /\ t_pc = "start"
    /\ TempReturned(ParseTempToK(t_str))
    /\ UNCHANGED t_str
    /\ UNCHANGED <<supVars, mergeVars, jsonVars, aggVars, chunkVars, mainVars, saveVars, a_again>>

InitTemp ==
    /\ t_str \in TempInputs
    /\ t_pc = "start"
    /\ t_out = 0
    /\ t_exc = NoExc
    /\ c_text = ""
    /\ c_size = 1
    /\ c_overlap = 0
    /\ c_pc = "idle"
    /\ c_start = 0
    /\ c_chunks = <<>>
    /\ r_docs = <<>>
    /\ r_pc = "idle"
    /\ r_i = 1
    /\ r_file = <<>>
    /\ r_total = 0
    /\ r_rc = None
    /\ f_records = <<>>
    /\ f_pc = <<>>
    /\ f_n = <<>>
    /\ f_lock = 0
    /\ f_file = <<>>
    /\ f_failed = {}
    /\ f_locked = {}
    /\ j_raw = EmptyObject
    /\ j_pc = "idle"
    /\ j_elements = <<>>
    /\ j_record = EmptyObject
    /\ j_exc = NoExc
    /\ a_ext = <<>>
    /\ a_pc = "idle"
    /\ a_pos = 1
    /\ a_groups = <<>>
    /\ a_current = DEFAULT_MID
    /\ a_assigned = <<>>
    /\ a_evidence = <<>>
    /\ a_entities = <<>>
    /\ a_records = <<>>
    /\ a_exc = NoExc
    /\ a_again = <<>>
    /\ s_chunks = <<>>
    /\ s_pc = "idle"
    /\ s_idx = 1
    /\ s_all = <<>>
    /\ s_timed_out = {}
    /\ s_calls = <<>>
    /\ s_late = <<>>
    /\ s_merged = <<>>
    /\ s_records = <<>>
    /\ s_exc = NoExc
    /\ w_pc = "none"
    /\ w_hung = FALSE
    /\ w_ex_a = <<>>
    /\ w_result = <<0, <<>>>>
    /\ m_pairs = <<>>
    /\ m_pc = "idle"
    /\ m_merged = <<>>

NextTemp == TempCall

SpecTemp == InitTemp /\ [][NextTemp]_vars

\* ----------------------------------------------------- one call of chunk_text
\* the texts chunked: the prefixes of an alphabet, so every position is
\* recognisable in the chunks
Alphabet == "abcdefghijklmnop"
ChunkTexts == {Prefix(Alphabet, n) : n \in 0..MaxText}
ChunkArgSizes == {0, 1, 2, 3, 5}
ChunkArgOverlaps == {0, 1, 2, 3}

\* text[c.lo:c.hi]
TextOf(text, c) == SubSeq(text, c.lo + 1, c.hi)

\* the early returns of chunk_text, else chunks = [] and start = 0
ChunkEnter ==
    /\ c_pc = "start"
    /\ IF c_text = "" \/ c_size <= 0
       THEN c_pc' = "returned" /\ c_chunks' = <<>> /\ UNCHANGED c_start
       ELSE IF Len(c_text) <= c_size
       THEN c_pc' = "returned" /\ c_chunks' = <<Slice(0, Len(c_text))>> /\ UNCHANGED c_start
       ELSE c_pc' = "loop" /\ c_chunks' = <<>> /\ c_start' = 0
    /\ UNCHANGED <<c_text, c_size, c_overlap>>
    /\ UNCHANGED <<supVars, mergeVars, jsonVars, aggVars, tempVars, mainVars, saveVars, a_again>>

\* one iteration of "while start < len(text)", the list being capped at
\* MaxChunks entries
ChunkIterate ==
    /\ c_pc = "loop"
    /\ Len(c_chunks) < MaxChunks
    /\ IF ~(c_start < Len(c_text))
       THEN c_pc' = "returned" /\ UNCHANGED <<c_chunks, c_start>>
       ELSE /\ c_chunks' = Append(c_chunks, Slice(c_start, Min(c_start + c_size, Len(c_text))))
            /\ IF Min(c_start + c_size, Len(c_text)) >= Len(c_text)
               THEN c_pc' = "returned" /\ UNCHANGED c_start
               ELSE /\ c_pc' = "loop"
                    /\ c_start' = NextStart(Min(c_start + c_size, Len(c_text)), c_overlap)
    /\ UNCHANGED <<c_text, c_size, c_overlap>>
    /\ UNCHANGED <<supVars, mergeVars, jsonVars, aggVars, tempVars, mainVars, saveVars, a_again>>

InitChunk ==
    /\ c_text \in ChunkTexts
    /\ c_size \in ChunkArgSizes
    /\ c_overlap \in ChunkArgOverlaps
    /\ c_pc = "start"
    /\ c_start = 0
    /\ c_chunks = <<>>
    /\ t_str = None
    /\ t_pc = "idle"
    /\ t_out = 0
    /\ t_exc = NoExc
    /\ r_docs = <<>>
    /\ r_pc = "idle"
    /\ r_i = 1
    /\ r_file = <<>>
    /\ r_total = 0
    /\ r_rc = None
    /\ f_records = <<>>
    /\ f_pc = <<>>
    /\ f_n = <<>>
    /\ f_lock = 0
    /\ f_file = <<>>
    /\ f_failed = {}
    /\ f_locked = {}
    /\ j_raw = EmptyObject
    /\ j_pc = "idle"
    /\ j_elements = <<>>
    /\ j_record = EmptyObject
    /\ j_exc = NoExc
    /\ a_ext = <<>>
    /\ a_pc = "idle"
    /\ a_pos = 1
    /\ a_groups = <<>>
    /\ a_current = DEFAULT_MID
    /\ a_assigned = <<>>
    /\ a_evidence = <<>>
    /\ a_entities = <<>>
    /\ a_records = <<>>
    /\ a_exc = NoExc
    /\ a_again = <<>>
    /\ s_chunks = <<>>
    /\ s_pc = "idle"
    /\ s_idx = 1
    /\ s_all = <<>>
    /\ s_timed_out = {}
    /\ s_calls = <<>>
    /\ s_late = <<>>
    /\ s_merged = <<>>
    /\ s_records = <<>>
    /\ s_exc = NoExc
    /\ w_pc = "none"
    /\ w_hung = FALSE
    /\ w_ex_a = <<>>
    /\ w_result = <<0, <<>>>>
    /\ m_pairs = <<>>
    /\ m_pc = "idle"
    /\ m_merged = <<>>

NextChunk == ChunkEnter \/ ChunkIterate

SpecChunk == InitChunk /\ [][NextChunk]_vars

\* ------------------------------------------------ main.py: the document loop
\* what one document comes to: process_one_pdf raises exc, or returns n
\* records of which the first wrote reach the file (all of them unless
\* open or write raised inside save_results_to_jsonl)
DocOutcome(exc, n, wrote) == [exc |-> exc, n |-> n, wrote |-> wrote]

DocOutcomes ==
    {DocOutcome(e, 0, 0) : e \in {"ValueError", "AttributeError", "RuntimeError"}}
    \cup UNION {{DocOutcome(NoExc, n, w) : w \in 0..n} : n \in 0..2}

\* the lines "for rec in records: f.write(...)" added for document i
LinesOf(i, wrote) == [k \in 1..wrote |-> <<i, k>>]

\* mutant: the exception of process_one_pdf is not caught and ends main
DocRaises_Uncaught ==
    /\ r_pc = "loop"
    /\ r_i <= Len(r_docs)
    /\ r_docs[r_i].exc # NoExc
    /\ r_pc' = "raised"
    /\ UNCHANGED <<r_docs, r_i, r_file, r_total, r_rc>>
    /\ UNCHANGED <<supVars, mergeVars, jsonVars, aggVars, tempVars, chunkVars, saveVars, a_again>>

\* process_one_pdf raised: "except Exception", log and continue
DocRaises ==
    /\ r_pc = "loop"
    /\ r_i <= Len(r_docs)
    /\ r_docs[r_i].exc # NoExc
    /\ r_i' = r_i + 1
    /\ UNCHANGED <<r_docs, r_pc, r_file, r_total, r_rc>>
    /\ UNCHANGED <<supVars, mergeVars, jsonVars, aggVars, tempVars, chunkVars, saveVars, a_again>>

\* process_one_pdf returned records: save_results_to_jsonl, then
\* total_records += len(records)
DocReturns ==
    /\ r_pc = "loop"
    /\ r_i <= Len(r_docs)
    /\ r_docs[r_i].exc = NoExc
    /\ r_file' = r_file \o LinesOf(r_i, r_docs[r_i].wrote)
    /\ r_total' = r_total + r_docs[r_i].n
    /\ r_i' = r_i + 1
    /\ UNCHANGED <<r_docs, r_pc, r_rc>>
    /\ UNCHANGED <<supVars, mergeVars, jsonVars, aggVars, tempVars, chunkVars, saveVars, a_again>>

\* the loop is over: return 0
MainReturns ==
    /\ r_pc = "loop"
    /\ r_i > Len(r_docs)
    /\ r_pc' = "returned"
    /\ r_rc' = "0"
    /\ UNCHANGED <<r_docs, r_i, r_file, r_total>>
    /\ UNCHANGED <<supVars, mergeVars, jsonVars, aggVars, tempVars, chunkVars, saveVars, a_again>>

InitMain ==
    /\ r_docs \in SeqsUpTo(DocOutcomes, MaxDocs) \ {<<>>}
    /\ r_pc = "loop"
    /\ r_i = 1
    /\ r_file = <<>>
    /\ r_total = 0
    /\ r_rc = None
    /\ t_str = None
    /\ t_pc = "idle"
    /\ t_out = 0
    /\ t_exc = NoExc
    /\ c_text = ""
    /\ c_size = 1
    /\ c_overlap = 0
    /\ c_pc = "idle"
    /\ c_start = 0
    /\ c_chunks = <<>>
    /\ f_records = <<>>
    /\ f_pc = <<>>
    /\ f_n = <<>>
    /\ f_lock = 0
    /\ f_file = <<>>
    /\ f_failed = {}
    /\ f_locked = {}
    /\ j_raw = EmptyObject
    /\ j_pc = "idle"
    /\ j_elements = <<>>
    /\ j_record = EmptyObject
    /\ j_exc = NoExc
    /\ a_ext = <<>>
    /\ a_pc = "idle"
    /\ a_pos = 1
    /\ a_groups = <<>>
    /\ a_current = DEFAULT_MID
    /\ a_assigned = <<>>
    /\ a_evidence = <<>>
    /\ a_entities = <<>>
    /\ a_records = <<>>
    /\ a_exc = NoExc
    /\ a_again = <<>>
    /\ s_chunks = <<>>
    /\ s_pc = "idle"
    /\ s_idx = 1
    /\ s_all = <<>>
    /\ s_timed_out = {}
    /\ s_calls = <<>>
    /\ s_late = <<>>
    /\ s_merged = <<>>
    /\ s_records = <<>>
    /\ s_exc = NoExc
    /\ w_pc = "none"
    /\ w_hung = FALSE
    /\ w_ex_a = <<>>
    /\ w_result = <<0, <<>>>>
    /\ m_pairs = <<>>
    /\ m_pc = "idle"
    /\ m_merged = <<>>

NextMain == DocRaises \/ DocReturns \/ MainReturns

SpecMain == InitMain /\ [][NextMain]_vars

\* ---------------------- main.py: save_results_to_jsonl called by threads
Threads == 1..MaxThreads

\* "if not records: return", else go on to "with lock"
SaveEnter ==
    \E t \in Threads :
        /\ f_pc[t] = "call"
        /\ f_pc' = [f_pc EXCEPT ![t] = IF f_records[t] = 0 THEN "returned" ELSE "acquire"]
        /\ UNCHANGED <<f_records, f_n, f_lock, f_file, f_failed, f_locked>>
        /\ UNCHANGED <<supVars, mergeVars, jsonVars, aggVars, tempVars, chunkVars, mainVars, a_again>>

\* mutant: the lock is taken without waiting for it to be free
LockFree_Always(t) == TRUE

\* the lock can be taken by thread t: it is free
LockFree(t) == f_lock = 0

\* "with lock": blocks until the lock is free, then holds it
SaveAcquire ==
    \E t \in Threads :
        /\ f_pc[t] = "acquire"
        /\ LockFree(t)
        /\ f_lock' = t
        /\ f_locked' = f_locked \cup {t}
        /\ f_pc' = [f_pc EXCEPT ![t] = "open"]
        /\ UNCHANGED <<f_records, f_n, f_file, f_failed>>
        /\ UNCHANGED <<supVars, mergeVars, jsonVars, aggVars, tempVars, chunkVars, mainVars, a_again>>

\* open(output_jsonl, "a") returns
SaveOpen ==
    \E t \in Threads :
        /\ f_pc[t] = "open"
        /\ f_pc' = [f_pc EXCEPT ![t] = "write"]
        /\ UNCHANGED <<f_records, f_n, f_lock, f_file, f_failed, f_locked>>
        /\ UNCHANGED <<supVars, mergeVars, jsonVars, aggVars, tempVars, chunkVars, mainVars, a_again>>

\* f.write(json.dumps(rec) + "\n") for the next record
SaveWrite ==
    \E t \in Threads :
        /\ f_pc[t] = "write"
        /\ f_n[t] < f_records[t]
        /\ f_file' = Append(f_file, <<t, f_n[t] + 1>>)
        /\ f_n' = [f_n EXCEPT ![t] = @ + 1]
        /\ UNCHANGED <<f_records, f_pc, f_lock, f_failed, f_locked>>
        /\ UNCHANGED <<supVars, mergeVars, jsonVars, aggVars, tempVars, chunkVars, mainVars, a_again>>

\* open or a write raises: "except Exception", log.error
SaveFails ==
    \E t \in Threads :
        /\ \/ f_pc[t] = "open"
           \/ f_pc[t] = "write" /\ f_n[t] < f_records[t]
        /\ f_failed' = f_failed \cup {t}
        /\ f_pc' = [f_pc EXCEPT ![t] = "release"]
        /\ UNCHANGED <<f_records, f_n, f_lock, f_file, f_locked>>
        /\ UNCHANGED <<supVars, mergeVars, jsonVars, aggVars, tempVars, chunkVars, mainVars, a_again>>

\* the loop is over: the file is closed
SaveClose ==
    \E t \in Threads :
        /\ f_pc[t] = "write"
        /\ f_n[t] = f_records[t]
        /\ f_pc' = [f_pc EXCEPT ![t] = "release"]
        /\ UNCHANGED <<f_records, f_n, f_lock, f_file, f_failed, f_locked>>
        /\ UNCHANGED <<supVars, mergeVars, jsonVars, aggVars, tempVars, chunkVars, mainVars, a_again>>

\* leaving "with lock" releases it; the call returns
SaveRelease ==
    \E t \in Threads :
        /\ f_pc[t] = "release"
        /\ f_lock' = 0
        /\ f_pc' = [f_pc EXCEPT ![t] = "returned"]
        /\ UNCHANGED <<f_records, f_n, f_file, f_failed, f_locked>>
        /\ UNCHANGED <<supVars, mergeVars, jsonVars, aggVars, tempVars, chunkVars, mainVars, a_again>>

InitSave ==
    /\ f_records \in [Threads -> 0..2]
    /\ f_pc = [t \in Threads |-> "call"]
    /\ f_n = [t \in Threads |-> 0]
    /\ f_lock = 0
    /\ f_file = <<>>
    /\ f_failed = {}
    /\ f_locked = {}
    /\ t_str = None
    /\ t_pc = "idle"
    /\ t_out = 0
    /\ t_exc = NoExc
    /\ c_text = ""
    /\ c_size = 1
    /\ c_overlap = 0
    /\ c_pc = "idle"
    /\ c_start = 0
    /\ c_chunks = <<>>
    /\ r_docs = <<>>
    /\ r_pc = "idle"
    /\ r_i = 1
    /\ r_file = <<>>
    /\ r_total = 0
    /\ r_rc = None
    /\ j_raw = EmptyObject
    /\ j_pc = "idle"
    /\ j_elements = <<>>
    /\ j_record = EmptyObject
    /\ j_exc = NoExc
    /\ a_ext = <<>>
    /\ a_pc = "idle"
    /\ a_pos = 1
    /\ a_groups = <<>>
    /\ a_current = DEFAULT_MID
    /\ a_assigned = <<>>
    /\ a_evidence = <<>>
    /\ a_entities = <<>>
    /\ a_records = <<>>
    /\ a_exc = NoExc
    /\ a_again = <<>>
    /\ s_chunks = <<>>
    /\ s_pc = "idle"
    /\ s_idx = 1
    /\ s_all = <<>>
    /\ s_timed_out = {}
    /\ s_calls = <<>>
    /\ s_late = <<>>
    /\ s_merged = <<>>
    /\ s_records = <<>>
    /\ s_exc = NoExc
    /\ w_pc = "none"
    /\ w_hung = FALSE
    /\ w_ex_a = <<>>
    /\ w_result = <<0, <<>>>>
    /\ m_pairs = <<>>
    /\ m_pc = "idle"
    /\ m_merged = <<>>

NextSave ==
    \/ SaveEnter
    \/ SaveAcquire
    \/ SaveOpen
    \/ SaveWrite
    \/ SaveFails
    \/ SaveClose
    \/ SaveRelease

SpecSave == InitSave /\ [][NextSave]_vars

\* =========================================================================
\* Properties
\* =========================================================================
Max(S) == CHOOSE x \in S : \A y \in S : y <= x

\* the tagger calls made for chunk k, in order
CallsOf(k) == SelectSeq(s_calls, LAMBDA c : c.idx = k)
PartsOf(k) == [i \in 1..Len(CallsOf(k)) |-> CallsOf(k)[i].part]

\* C1: the chunk loop records exactly one (chunk_index, spans) pair per
\* chunk, in chunk order, whatever the tagger calls come to, and no tagger
\* failure is raised out of process_one_pdf.
C1_OnePairPerChunk ==
    /\ \A i \in 1..Len(s_all) : s_all[i][1] = i
    /\ Len(s_all) = IF s_pc = "exit" THEN s_idx ELSE s_idx - 1
    /\ s_pc \in {"done", "raised"} => Len(s_all) = Len(s_chunks)
    /\ s_pc # "raised" => s_exc = NoExc
    /\ s_exc \notin TaggerErrors

\* C1 witness: a three-chunk document finished after a timeout, a
\* connectivity failure and a successful chunk.
C1_Witness ==
    /\ s_pc = "done"
    /\ Len(s_all) = 3
    /\ s_timed_out # {}
    /\ \E i \in 1..Len(s_calls) : s_calls[i].outcome = "ConnectionError"
    /\ \E i \in 1..Len(s_all) : s_all[i][2] # <<>>

\* C2: once the wait for chunk k has timed out, the supervisor can go on to
\* the next chunk whether or not the abandoned call has returned.
C2_ProceedsAfterTimeout ==
    (s_pc = "exit" /\ s_idx \in s_timed_out) => ENABLED ExitWith

\* C3: a chunk whose wait timed out contributes the pair (chunk_index, [])
\* and is submitted once only; spans its call returns later reach neither
\* the merged span list nor the records.
C3_TimedOutChunkEmpty ==
    \A k \in s_timed_out :
        /\ Len(s_all) >= k
        /\ s_all[k] = <<k, <<>>>>
        /\ Len(SelectSeq(PartsOf(k), LAMBDA part : part = "")) = 1
        /\ \A i \in 1..Len(s_merged) : s_merged[i].chunk # k
        /\ \A i \in 1..Len(s_records) : Len(s_records[i].evidence) = Len(s_merged)

\* C3 witness: a document finished with records although an abandoned call
\* returned spans after its timeout.
C3_Witness ==
    /\ s_pc = "done"
    /\ s_late # <<>>
    /\ s_records # <<>>

\* C4: after a parse failure of a chunk longer than the threshold both
\* halves are tried, the second whatever the first came to, and the chunk
\* returns first-half spans then second-half spans, a failed half adding none.
C4_HalvesIndependent ==
    (w_pc = "returned" /\ \E i \in 1..Len(CallsOf(s_idx)) : CallsOf(s_idx)[i].part = "a")
    => /\ PartsOf(s_idx) = <<"", "a", "b">>
       /\ w_result[2] = CallsOf(s_idx)[2].spans \o CallsOf(s_idx)[3].spans

\* C5: a chunk longer than the threshold whose every tagger call raises a
\* parse error gets one call on each half after the whole-chunk call and
\* yields no spans.
C5_RetriedOnceAsTwoHalves ==
    (/\ w_pc = "returned"
     /\ SliceLen(CurChunk) > MIN_CHUNK_RETRY
     /\ \A i \in 1..Len(CallsOf(s_idx)) : CallsOf(s_idx)[i].outcome \in ParseErrors)
    => /\ PartsOf(s_idx) = <<"", "a", "b">>
       /\ w_result = <<s_idx, <<>>>>

RECURSIVE AscendingConcat(_)
\* the span lists of a set of pairs, concatenated by ascending index
AscendingConcat(S) ==
    IF S = {} THEN <<>>
    ELSE LET p == CHOOSE p \in S : \A q \in S : p[1] <= q[1]
         IN  p[2] \o AscendingConcat(S \ {p})

\* C6: the merged span list is the concatenation of the per-chunk span
\* lists in ascending chunk_index order, whatever order the pairs were
\* recorded in.
C6_MergedAscending ==
    m_pc = "merged" => m_merged = AscendingConcat({m_pairs[i] : i \in 1..Len(m_pairs)})

\* C6 witness: three pairs recorded as chunk 3, chunk 1, chunk 2, each with spans.
C6_Witness ==
    /\ m_pc = "merged"
    /\ Len(m_pairs) = 3
    /\ m_pairs[1][1] = 3 /\ m_pairs[2][1] = 1 /\ m_pairs[3][1] = 2
    /\ \A i \in 1..3 : m_pairs[i][2] # <<>>

\* span i is a process or property span without a usable material_id
NoOwnMid(ext) ==
    /\ ext.extraction_class \in {"process", "property"}
    /\ ~Truthy(Get(ext.attributes, "material_id", ""))

\* the attribute list of group g that spans of class cls are appended to
ListOf(g, cls) ==
    CASE cls = "composition" -> g.compositions
      [] cls = "process"     -> g.processes
      [] cls = "property"    -> g.properties

\* C7: a process or property span without a material_id is filed under the
\* group id the most recent preceding composition span resolved to, and
\* under "__default__" when no composition span precedes it.
C7_CarryForward ==
    \A i \in 1..Len(a_assigned) :
        NoOwnMid(a_ext[i]) =>
            LET comps == {j \in 1..(i - 1) : a_ext[j].extraction_class = "composition"}
                owner == IF comps = {} THEN DEFAULT_MID ELSE a_assigned[Max(comps)]
            IN  /\ a_assigned[i] = owner
                /\ \E n \in 1..Len(a_groups) :
                      /\ a_groups[n].mid = owner
                      /\ \E m \in 1..Len(ListOf(a_groups[n], a_ext[i].extraction_class)) :
                            ListOf(a_groups[n], a_ext[i].extraction_class)[m]
                               = a_ext[i].attributes

\* C7 witness: a property before any composition went to the default group
\* and a process after a composition identified by its formula went to it.
C7_Witness ==
    /\ Len(a_assigned) = 3
    /\ NoOwnMid(a_ext[1]) /\ a_assigned[1] = DEFAULT_MID
    /\ a_ext[2].extraction_class = "composition" /\ a_assigned[2] = "X"
    /\ NoOwnMid(a_ext[3]) /\ a_assigned[3] = "X"

\* the decoded element list of composition attribute set c
Decoded(c) == ParseElementsJson(Get(c, "elements_json", EmptyObject)).val

\* C8 as stated: the entity's composition is the decoded element list of the
\* last composition span of its group alone, empty when that span's
\* elements_json is missing, empty or malformed, with that span's formula
\* and unit.
C8_LastSpanAlone ==
    a_pc \in {"project", "done"} =>
        \A n \in 1..Len(a_groups) :
            a_groups[n].compositions # <<>> =>
                LET cs   == a_groups[n].compositions
                    last == cs[Len(cs)]
                IN  /\ a_entities[n].composition
                          = WithUnit(Decoded(last), Get(last, "unit", "at.%"))
                    /\ Truthy(Get(last, "formula", "")) =>
                          a_entities[n].formula = last.formula

\* C8 amended: the entity's composition is the decoded element list of the
\* last composition span of its group that decodes to a non-empty list
\* (empty when none does), each element with the latest unit given up to
\* that span (default at.%); its formula is that of the last composition
\* span that has a formula attribute, the group id when that is absent or
\* empty; element lists of different spans are never merged.
C8_LastNonEmptyWins ==
    a_pc \in {"project", "done"} =>
        \A n \in 1..Len(a_groups) :
            a_groups[n].compositions # <<>> =>
                LET cs == a_groups[n].compositions
                    ne == {j \in 1..Len(cs) : Decoded(cs[j]) # <<>>}
                    us(j) == {u \in 1..j : "unit" \in DOMAIN cs[u]}
                    unitAt(j) == IF us(j) = {} THEN "at.%" ELSE cs[Max(us(j))].unit
                    fs == {j \in 1..Len(cs) : "formula" \in DOMAIN cs[j]}
                IN  /\ a_entities[n].composition
                          = IF ne = {} THEN <<>>
                            ELSE WithUnit(Decoded(cs[Max(ne)]), unitAt(Max(ne)))
                    /\ a_entities[n].formula
                          = IF fs # {} /\ Truthy(cs[Max(fs)].formula)
                            THEN cs[Max(fs)].formula
                            ELSE a_groups[n].mid

\* C8 witness: a group whose last composition span has no decodable
\* elements_json and no formula keeps the elements and the formula of an
\* earlier span.
C8_Witness ==
    /\ a_pc = "done"
    /\ \E n \in 1..Len(a_groups) :
          LET cs == a_groups[n].compositions
          IN  /\ Len(cs) >= 2
              /\ Decoded(cs[Len(cs)]) = <<>>
              /\ "formula" \notin DOMAIN cs[Len(cs)]
              /\ a_entities[n].composition # <<>>
              /\ a_entities[n].formula # a_groups[n].mid

\* C9: aggregation and projection never raise, whatever the attributes hold.
C9_NormalizationNeverRaises ==
    a_pc # "raised" /\ a_exc = NoExc

\* C10: _parse_elements_json decodes -1 to is_balance with value 0 and any
\* other number to itself, and entity_to_target_json writes the elements
\* back as the same symbol-to-value object, balance elements as -1 again.
C10_BalanceRoundTrip ==
    WellFormed(j_raw) =>
        /\ j_pc # "raised"
        /\ j_pc \in {"parsed", "encoded"} =>
              /\ Len(j_elements) = Len(j_raw.items)
              /\ \A i \in 1..Len(j_elements) :
                    /\ j_elements[i].symbol = j_raw.items[i].key
                    /\ j_elements[i].is_balance = (j_raw.items[i].val.n = Float(-1))
                    /\ j_elements[i].value = IF j_raw.items[i].val.n = Float(-1) THEN 0
                                             ELSE j_raw.items[i].val.n
        /\ j_pc = "encoded" => j_record = j_raw

\* C10 witness: {"Fe": -1, "Ni": 30} decoded and written back.
C10_Witness ==
    /\ j_pc = "encoded"
    /\ j_raw = FeNi
    /\ j_elements[1].is_balance /\ j_elements[1].value = 0
    /\ j_record = FeNi

\* temp_str is unset, empty, or has neither a digit nor a dot in it
NoNumber(s) ==
    ~Truthy(s) \/ \A i \in 1..Len(s) : Ch(s, i) \notin Digits \cup {"."}

RECURSIVE Reassembled(_, _, _)
\* the chunks' texts joined after the first overlap characters of every
\* chunk but the first are cut off
Reassembled(text, chunks, overlap) ==
    IF chunks = <<>> THEN ""
    ELSE Reassembled(text, SubSeq(chunks, 1, Len(chunks) - 1), overlap)
         \o (IF Len(chunks) = 1 THEN TextOf(text, chunks[1])
             ELSE SubSeq(TextOf(text, chunks[Len(chunks)]), overlap + 1,
                         SliceLen(chunks[Len(chunks)])))

\* C12: for a non-empty text, chunk_size > 0 and 0 <= overlap < chunk_size
\* chunk_text returns, the first chunk starts at 0, every later chunk starts
\* at the previous end minus overlap, the last chunk ends at the end of the
\* text, and the chunks without their overlap prefixes spell the text.
C12_NoCharacterDropped ==
    (c_text # "" /\ c_size > 0 /\ 0 <= c_overlap /\ c_overlap < c_size) =>
        /\ c_pc = "loop" => Len(c_chunks) < MaxChunks
        /\ c_pc = "returned" =>
              /\ c_chunks # <<>>
              /\ c_chunks[1].lo = 0
              /\ \A i \in 2..Len(c_chunks) : c_chunks[i].lo = c_chunks[i - 1].hi - c_overlap
              /\ c_chunks[Len(c_chunks)].hi = Len(c_text)
              /\ Reassembled(c_text, c_chunks, c_overlap) = c_text

\* C12 witness: a text cut into at least three overlapping chunks.
C12_Witness ==
    /\ c_pc = "returned"
    /\ Len(c_chunks) >= 3
    /\ c_overlap >= 1 /\ c_overlap < c_size
    /\ Reassembled(c_text, c_chunks, c_overlap) = c_text

\* the elements of seq without repetitions, in order of first occurrence
FirstOccurrences(seq) ==
    LET keep == {i \in 1..Len(seq) : \A j \in 1..(i - 1) : seq[j] # seq[i]}
        nth(k) == CHOOSE i \in keep : Cardinality({j \in keep : j <= i}) = k
    IN  [k \in 1..Cardinality(keep) |-> seq[nth(k)]]

\* C13: once the run on a span list has ended there is exactly one record
\* per distinct resolved group id, in order of first occurrence.
C13_OneRecordPerGroup ==
    a_pc \in {"done", "raised"} =>
        [i \in 1..Len(a_records) |-> a_records[i].Composition_Info.Alloy_Name_Raw]
            = FirstOccurrences(a_assigned)

\* the property attribute sets of a group whose value float() accepts
Parsable(prs) == SelectSeq(prs, LAMBDA pr : ParseFloat(Get(pr, "value", "")).exc = NoExc)

\* C14: an entity's properties are, in span order, one Property per
\* property span of its group whose value parses as a number, spans with an
\* unparsable or missing value being left out and repeated spans kept.
C14_PropertiesAccumulate ==
    a_pc \in {"project", "done"} =>
        \A n \in 1..Len(a_groups) :
            LET ok == Parsable(a_groups[n].properties)
                ps == a_entities[n].properties
            IN  /\ Len(ps) = Len(ok)
                /\ \A i \in 1..Len(ps) :
                      /\ ps[i].value = ParseFloat(ok[i].value).val
                      /\ ps[i].property_type
                            = Get(ok[i], "property_type", Get(ok[i], "name", "Unknown"))
                      /\ ps[i].unit = Get(ok[i], "unit", "")
                      /\ ps[i].test_temperature
                            = Get(ok[i], "test_temperature", Get(ok[i], "condition", None))

\* C14 witness: a group with the same parsable property span twice and an
\* unparsable one between them has two equal properties.
C14_Witness ==
    /\ a_pc = "done"
    /\ \E n \in 1..Len(a_groups) :
          LET prs == a_groups[n].properties
          IN  /\ Len(prs) = 3
              /\ prs[1] = prs[3]
              /\ ParseFloat(Get(prs[2], "value", "")).exc # NoExc
              /\ Len(a_entities[n].properties) = 2
              /\ a_entities[n].properties[1] = a_entities[n].properties[2]

\* the values of key in the attribute sets of ps that give it a non-empty
\* value, in order
NonEmptyValues(ps, key) ==
    LET has == SelectSeq(ps, LAMBDA p : Truthy(Get(p, key, "")))
    IN  [i \in 1..Len(has) |-> has[i][key]]

\* the last element of seq, none when seq is empty
LastOr(seq, none) == IF seq = <<>> THEN none ELSE seq[Len(seq)]

\* the value of key in the last attribute set of ps that has the key, none
\* when no set has it or the value is empty
LastGiven(ps, key, none) ==
    LET has == SelectSeq(ps, LAMBDA p : key \in DOMAIN p)
    IN  IF has # <<>> /\ Truthy(has[Len(has)][key]) THEN has[Len(has)][key] ELSE none

\* C15 as stated: method and heat_treatment follow one last-wins rule over
\* the group's process spans, either the last non-empty value or the value
\* of the last span that has the attribute ("Unknown" for a group left
\* without a method), and details is the space-joined concatenation of the
\* spans' details in order.
C15_LastWinsAndJoined ==
    a_pc \in {"project", "done"} =>
        \A n \in 1..Len(a_groups) :
            LET ps == a_groups[n].processes
                pr == a_entities[n].process
            IN  /\ \/ /\ pr.method = LastOr(NonEmptyValues(ps, "method"), "Unknown")
                      /\ pr.heat_treatment = LastOr(NonEmptyValues(ps, "heat_treatment"), None)
                   \/ /\ pr.method = LastGiven(ps, "method", "Unknown")
                      /\ pr.heat_treatment = LastGiven(ps, "heat_treatment", None)
                /\ NonEmptyValues(ps, "details") # <<>> =>
                      pr.details = Join(NonEmptyValues(ps, "details"))

\* C15 amended: method is the method attribute of the last process span of
\* the group that has one, "Unknown" when that value is empty or no span
\* has one; heat_treatment is the last non-empty heat_treatment, absent
\* when there is none; details is the space-joined concatenation, in
\* order, of the spans' non-empty details with leading and trailing
\* whitespace removed, absent when there are none.
C15_ProcessFields ==
    a_pc \in {"project", "done"} =>
        \A n \in 1..Len(a_groups) :
            LET ps == a_groups[n].processes
                pr == a_entities[n].process
            IN  /\ pr.method = LastGiven(ps, "method", "Unknown")
                /\ pr.heat_treatment = LastOr(NonEmptyValues(ps, "heat_treatment"), None)
                /\ pr.details = IF NonEmptyValues(ps, "details") = <<>> THEN None
                                ELSE Strip(Join(NonEmptyValues(ps, "details")))

\* C15 witness: two process spans of one group gave their details, joined
\* in order, and a later span with an empty method left the group with
\* "Unknown".
C15_Witness ==
    /\ a_pc = "done"
    /\ \E n \in 1..Len(a_groups) :
          /\ Len(a_groups[n].processes) = 3
          /\ a_entities[n].process.details = "laser power 550 W 2h"
          /\ a_entities[n].process.heat_treatment = "Annealed"
          /\ a_entities[n].process.method = "Unknown"

C19_EvidencePerSpan ==
    \A r \in 1..Len(a_records) :
        /\ Len(a_records[r].evidence) = Len(a_ext)
        /\ \A i \in 1..Len(a_ext) :
              /\ a_records[r].evidence[i].extraction_class = a_ext[i].extraction_class
              /\ a_records[r].evidence[i].text = a_ext[i].extraction_text

\* C19 witness: two records of different groups, both listing a property
\* span whose value did not parse.
C19_Witness ==
    /\ Len(a_records) = 2
    /\ \E i \in 1..Len(a_ext) :
          /\ a_ext[i].extraction_class = "property"
          /\ ParseFloat(Get(a_ext[i].attributes, "value", "")).exc # NoExc
          /\ a_records[1].evidence[i].text = a_ext[i].extraction_text
          /\ a_records[2].evidence[i].text = a_ext[i].extraction_text

\* C20: a composition span is filed under its material_id when that is
\* present and non-empty, otherwise under its formula attribute, otherwise
\* under the first 40 characters of its text, and current_mid is that id
\* after the span.
C20_CompositionGroupId ==
    \A i \in 1..Len(a_assigned) :
        a_ext[i].extraction_class = "composition" =>
            LET attrs == a_ext[i].attributes
                id == IF "material_id" \in DOMAIN attrs /\ attrs.material_id # ""
                      THEN attrs.material_id
                      ELSE IF "formula" \in DOMAIN attrs THEN attrs.formula
                      ELSE SubSeq(a_ext[i].extraction_text, 1,
                                  Min(40, Len(a_ext[i].extraction_text)))
            IN  /\ a_assigned[i] = id
                /\ i = Len(a_assigned) => a_current = id

\* C20 witness: three composition spans were filed under a material_id, a
\* formula and a 40-character text prefix.
C20_Witness ==
    /\ Len(a_assigned) = 3
    /\ \A i \in 1..3 : a_ext[i].extraction_class = "composition"
    /\ "material_id" \in DOMAIN a_ext[1].attributes
    /\ a_ext[1].attributes.material_id # ""
    /\ a_assigned[1] = a_ext[1].attributes.material_id
    /\ "material_id" \notin DOMAIN a_ext[2].attributes
    /\ "formula" \in DOMAIN a_ext[2].attributes
    /\ a_assigned[2] = a_ext[2].attributes.formula
    /\ "formula" \notin DOMAIN a_ext[3].attributes
    /\ Len(a_ext[3].extraction_text) > 40
    /\ Len(a_assigned[3]) = 40

RECURSIVE WrittenUpTo(_, _)
\* the lines of the documents 1..k that returned, in document order
WrittenUpTo(docs, k) ==
    IF k = 0 THEN <<>>
    ELSE WrittenUpTo(docs, k - 1)
         \o (IF docs[k].exc # NoExc THEN <<>> ELSE LinesOf(k, docs[k].wrote))

\* C16: main never ends in an exception of a document; after each
\* document the file holds the lines of the documents that returned, in
\* order, and nothing of a document that raised; every document is reached
\* and main returns 0.
C16_DocumentIsolation ==
    /\ r_pc \in {"idle", "loop", "returned"}
    /\ r_pc # "idle" =>
          /\ r_file = WrittenUpTo(r_docs, r_i - 1)
          /\ \A k \in 1..(r_i - 1) :
                Cardinality({j \in 1..Len(r_file) : r_file[j][1] = k})
                   = IF r_docs[k].exc # NoExc THEN 0 ELSE r_docs[k].wrote
          /\ r_pc = "returned" => r_i = Len(r_docs) + 1 /\ r_rc = "0"
          /\ r_pc = "loop" => r_rc = None

\* C16 witness: the second of three documents raised; the run returned
\* with the records of the first and the third in the file.
C16_Witness ==
    /\ r_pc = "returned"
    /\ Len(r_docs) = 3
    /\ r_docs[2].exc # NoExc
    /\ r_file = <<<<1, 1>>, <<3, 1>>, <<3, 2>>>>

\* the positions of the lines of thread t in the file
LinesAt(t) == {j \in 1..Len(f_file) : f_file[j][1] = t}

\* C18: at most one thread is between taking and releasing the lock; the
\* lines of one call are adjacent in the file, in record order, and all
\* there once the call has returned without a failed write; a call with no
\* records never takes the lock and writes nothing.
C18_AppendsExclusive ==
    f_pc # <<>> =>
        /\ \A t, u \in Threads :
              (f_pc[t] \in {"open", "write", "release"}
                 /\ f_pc[u] \in {"open", "write", "release"}) => t = u /\ f_lock = t
        /\ \A t \in Threads :
              /\ \A i, j \in LinesAt(t) : \A k \in i..j : k \in LinesAt(t)
              /\ \A i, j \in LinesAt(t) : i < j => f_file[i][2] < f_file[j][2]
              /\ Cardinality(LinesAt(t)) = f_n[t]
              /\ (f_pc[t] = "returned" /\ t \notin f_failed) => f_n[t] = f_records[t]
              /\ f_records[t] = 0 => t \notin f_locked /\ LinesAt(t) = {}

\* C18 witness: thread 1 waits for the lock while thread 2, which holds it,
\* has written the first of its two records.
C18_Witness ==
    /\ f_pc # <<>>
    /\ f_pc[1] = "acquire"
    /\ f_pc[2] = "write"
    /\ f_lock = 2
    /\ f_records[2] = 2
    /\ f_file = <<<<2, 1>>>>

\* the three lists of a group hold this many attribute maps
Entries(g) == Len(g.compositions) + Len(g.processes) + Len(g.properties)

RECURSIVE TotalEntries(_)
\* the attribute maps held by all the lists of all the groups
TotalEntries(groups) ==
    IF groups = <<>> THEN 0
    ELSE Entries(groups[Len(groups)]) + TotalEntries(SubSeq(groups, 1, Len(groups) - 1))

RECURSIVE FiledUnder(_, _, _)
\* the attribute maps of the spans 1..i of class cls filed under mid, in span order
FiledUnder(mid, cls, i) ==
    IF i = 0 THEN <<>>
    ELSE IF a_assigned[i] = mid /\ a_ext[i].extraction_class = cls
         THEN Append(FiledUnder(mid, cls, i - 1), a_ext[i].attributes)
         ELSE FiledUnder(mid, cls, i - 1)

\* C21: after any number of spans of the grouping loop, each list of each
\* group holds exactly the attribute maps of the spans of its class filed
\* under the group's id, in span order, the group ids are distinct, and the
\* entries of all lists of all groups number as many as the spans processed:
\* every span is in one list of one group and in no other.
C21_OneListOneGroup ==
    /\ \A n, m \in 1..Len(a_groups) : a_groups[n].mid = a_groups[m].mid => n = m
    /\ \A n \in 1..Len(a_groups) :
          \A cls \in {"composition", "process", "property"} :
              ListOf(a_groups[n], cls) = FiledUnder(a_groups[n].mid, cls, Len(a_assigned))
    /\ \A i \in 1..Len(a_assigned) : GroupIndex(a_groups, a_assigned[i]) # 0
    /\ TotalEntries(a_groups) = Len(a_assigned)

\* C21 witness: three spans of the three classes were filed in two groups.
C21_Witness ==
    /\ Len(a_assigned) = 3
    /\ Len(a_groups) = 2
    /\ {a_ext[i].extraction_class : i \in 1..3} = {"composition", "process", "property"}
    /\ TotalEntries(a_groups) = 3

\* the whole-chunk call of chunk k has ended with an exception of the set errs
WholeRaised(k, errs) ==
    /\ CallsOf(k) # <<>>
    /\ CallsOf(k)[1].part = ""
    /\ CallsOf(k)[1].outcome \in errs

\* chunk k was given up after its whole-chunk call alone: one tagger call,
\* and the worker's result, and the pair recorded for it, hold no span
SkippedAfterOneCall(k) ==
    /\ PartsOf(k) = <<"">>
    /\ k = s_idx => w_pc = "returned" /\ w_result = <<k, <<>>>>
    /\ Len(s_all) >= k => s_all[k] = <<k, <<>>>>

\* C22: a chunk of at most MIN_CHUNK_RETRY characters, 2000 included, whose
\* whole-chunk call raises a parse error is not retried: the tagger was
\* called once for it and it yields the empty span list.
C22_ShortChunkNotRetried ==
    \A k \in 1..Len(s_chunks) :
        (WholeRaised(k, ParseErrors) /\ s_chunks[k].hi - s_chunks[k].lo <= 2000)
        => SkippedAfterOneCall(k)

\* C22 witness: a chunk of exactly 2000 characters raised a parse error and
\* its empty pair was recorded.
C22_Witness ==
    \E k \in 1..Len(s_chunks) :
        /\ WholeRaised(k, ParseErrors)
        /\ s_chunks[k].hi - s_chunks[k].lo = 2000
        /\ Len(s_all) >= k
        /\ k \notin s_timed_out

\* C23: a chunk whose whole-chunk call raises an exception that is not a
\* parse error is skipped without retry whatever its length: the tagger was
\* called once for it and it yields the empty span list.
C23_OtherErrorsNotRetried ==
    \A k \in 1..Len(s_chunks) :
        WholeRaised(k, {"ConnectionError", "RuntimeError"}) => SkippedAfterOneCall(k)

\* C23 witness: a chunk longer than the retry threshold raised a
\* connectivity failure and its empty pair was recorded.
C23_Witness ==
    \E k \in 1..Len(s_chunks) :
        /\ WholeRaised(k, {"ConnectionError"})
        /\ s_chunks[k].hi - s_chunks[k].lo > 2000
        /\ Len(s_all) >= k
        /\ k \notin s_timed_out

\* C24: the tagger is called at most three times for one chunk: on the whole
\* chunk, then on its first half, then on its second half; the halves are
\* the chunk cut at len // 2, and no call follows a half that failed,
\* however long the half is.
C24_AtMostThreeCalls ==
    \A k \in 1..Len(s_chunks) :
        LET calls == CallsOf(k)
            c     == s_chunks[k]
            half  == (c.hi - c.lo) \div 2
        IN  /\ Len(calls) <= 3
            /\ PartsOf(k) = SubSeq(<<"", "a", "b">>, 1, Len(calls))
            /\ Len(calls) >= 1 => calls[1].lo = c.lo /\ calls[1].hi = c.hi
            /\ Len(calls) >= 2 => calls[2].lo = c.lo /\ calls[2].hi = c.lo + half
            /\ Len(calls) >= 3 => calls[3].lo = c.lo + half /\ calls[3].hi = c.hi
            /\ \A i \in 2..Len(calls) :
                  calls[i].outcome \in TaggerErrors => i = Len(calls)

\* C24 witness: a chunk was cut in two after a parse failure, and its second
\* half, itself longer than the threshold, failed to parse and was left at
\* that.
C24_Witness ==
    \E k \in 1..Len(s_chunks) :
        /\ PartsOf(k) = <<"", "a", "b">>
        /\ CallsOf(k)[3].outcome \in ParseErrors
        /\ CallsOf(k)[3].hi - CallsOf(k)[3].lo > 2000
        /\ Len(s_all) >= k

\* the tagger calls that have neither returned nor raised
PendingCalls == {i \in 1..Len(s_calls) : s_calls[i].outcome = "pending"}

C26_MarkerRule ==
    (t_pc = "returned" /\ Truthy(t_str)) =>
        LET t   == Strip(Lower(t_str))
            tok == FirstNumToken(t_str)
        IN  (~Contains(t, "rt") /\ ~Contains(t, "room")) =>
                IF tok = "" THEN t_out = Float(298)
                ELSE IF Contains(t, "k") THEN t_out = ParseFloat(tok).val
                ELSE IF Contains(t, "c") THEN t_out = ParseFloat(tok).val + 27315
                ELSE t_out = ParseFloat(tok).val

\* the Test_IDs of record r
TestIds(r) == {r.Properties_Info[i].Test_ID : i \in 1..Len(r.Properties_Info)}

\* C27 as stated: the records of one document, one per material group, never
\* share a Mat_ID, a Sample_ID or a Test_ID.
C27_IdsUnique ==
    a_pc = "done" =>
        \A r, q \in 1..Len(a_records) :
            r # q => /\ a_records[r].Composition_Info.Mat_ID
                          # a_records[q].Composition_Info.Mat_ID
                     /\ a_records[r].Process_Info.Sample_ID
                          # a_records[q].Process_Info.Sample_ID
                     /\ TestIds(a_records[r]) \cap TestIds(a_records[q]) = {}

\* C28 as stated: chunk_text terminates for every non-empty text, every
\* chunk_size > 0 and every overlap >= 0: each iteration of its loop that
\* does not return moves start forward, so that start reaches the end of
\* the text after at most len(text) iterations.
C28_LoopAdvances ==
    [][(c_text # "" /\ c_size > 0 /\ c_overlap >= 0 /\ c_pc = "loop" /\ c_pc' = "loop")
         => c_start' > c_start]_vars

\* span i is a process or property span with a material_id of its own
OwnMid(ext) ==
    /\ ext.extraction_class \in {"process", "property"}
    /\ Truthy(Get(ext.attributes, "material_id", ""))

\* current_mid after the spans 1..i: the id the last composition span among
\* them was filed under, "__default__" when there is none
CurrentAfter(i) ==
    LET comps == {j \in 1..i : a_ext[j].extraction_class = "composition"}
    IN  IF comps = {} THEN DEFAULT_MID ELSE a_assigned[Max(comps)]

\* C29: only composition spans change current_mid. After any number of
\* spans current_mid is the id of the last composition span processed
\* ("__default__" if none was); a process or property span with a non-empty
\* material_id is filed under that id and leaves current_mid as it was, so
\* that a later span without material_id still goes to the group of the
\* last composition span.
C29_OnlyCompositionsReanchor ==
    /\ a_pc = "group" => a_current = CurrentAfter(Len(a_assigned))
    /\ \A i \in 1..Len(a_assigned) :
          /\ OwnMid(a_ext[i]) => a_assigned[i] = a_ext[i].attributes.material_id
          /\ NoOwnMid(a_ext[i]) => a_assigned[i] = CurrentAfter(i - 1)

\* C29 witness: after a composition filed under "X" and a property filed
\* under its own id "T2", a process span without material_id went to "X".
C29_Witness ==
    /\ Len(a_assigned) = 3
    /\ a_ext[1].extraction_class = "composition"
    /\ OwnMid(a_ext[2])
    /\ NoOwnMid(a_ext[3])
    /\ a_assigned = <<"X", "T2", "X">>
    /\ a_current = "X"

\* C30 as stated: every group id a span is filed under, current_mid after
\* every span and every entity's material_name is a non-empty string.
C30_IdsNonEmpty ==
    /\ \A i \in 1..Len(a_assigned) : a_assigned[i] # ""
    /\ \A n \in 1..Len(a_groups) : a_groups[n].mid # ""
    /\ a_current # ""
    /\ \A e \in 1..Len(a_entities) : a_entities[e].material_name # ""

=============================================================================
